---------------------------- MODULE Spec2Model ----------------------------
(***************************************************************************)
(* CryptoPodatki: the tax engine (calculateTax), the classifier and the    *)
(* NBP rate resolver (getNBPExchangeRate), as state machines.              *)
(*                                                                         *)
(* Units.  A monetary amount is an integer number of mills (1/1000 of a    *)
(* currency unit), so that amounts finer than a grosz exist and the        *)
(* rounding Math.round(x * 100) / 100 is not the identity.  An exchange    *)
(* rate is an integer number of thousandths (1.0 is 1000).  JavaScript     *)
(* numbers are modelled as exact decimals; binary floating point error is  *)
(* outside the model.                                                      *)
(*                                                                         *)
(* Time.  A Date is an instant, an integer number of hours since           *)
(* 1970-01-01T00:00Z.  The getters getDate/getDay/getFullYear/setDate read *)
(* and write the LOCAL calendar (instant + tz), toISOString the UTC        *)
(* calendar; tz is the offset of the device's time zone in hours.          *)
(***************************************************************************)
EXTENDS Integers, Sequences, FiniteSets, TLC

VARIABLES
    tz,                    \* device time zone: local time = UTC + tz hours
    files,                 \* ImportScreen state: the ParsedFile list (transactions only)
    previousCosts,         \* the incoming carry-forward handed to calculateTax
    pc,                    \* position of calculateTax: idle / resolving / done
    allTransactions,       \* calculateTax: the concatenated, sorted list
    transactionsWithPLN,   \* calculatePLNAmounts: result built so far
    cursor,                \* calculatePLNAmounts: [i, slot] of the conversion awaited
    carryForward,          \* calculateTax: the running carry-forward
    calculation,           \* the TaxCalculation returned, or None
    first,                 \* the first TaxCalculation returned by this screen
    firstResolved,         \* transactionsWithPLN of that first run
    rateCache,             \* nbpService: Map cacheKey -> rate
    everCached,            \* history: per key, the rate first cached and whether
                           \* the cache was cleared since
    lk,                    \* getNBPExchangeRate activations, one per caller
    adding,                \* ImportScreen handleAddFile: the parseFile it awaits
    asyncStorage,          \* AsyncStorage: the items under the app's keys
    call                   \* storageService: the call in flight, or the last one

vars == <<tz, files, previousCosts, pc, allTransactions, transactionsWithPLN,
          cursor, carryForward, calculation, first, firstResolved, rateCache,
          everCached, lk, adding, asyncStorage, call>>

---------------------------------------------------------------------------
(* Generic helpers *)

Max(a, b) == IF a >= b THEN a ELSE b

RECURSIVE SumSeq(_)
SumSeq(s) == IF s = <<>> THEN 0 ELSE Head(s) + SumSeq(Tail(s))

RECURSIVE FlattenSeq(_)
FlattenSeq(ss) == IF ss = <<>> THEN <<>> ELSE Head(ss) \o FlattenSeq(Tail(ss))

Range(s) == {s[i] : i \in DOMAIN s}

BoundedSeq(S, n) == UNION {[1..k -> S] : k \in 0..n}

---------------------------------------------------------------------------
(* The calendar behind Date: proleptic Gregorian, days counted from        *)
(* 1970-01-01.                                                             *)

\* Civil date <<year, month, day>> of a day number, computed era by era
\* (an era is 400 years, 146097 days, and starts on a 1 March).
YearOfEra(doe) ==
    (doe - doe \div 1460 + doe \div 36524 - doe \div 146096) \div 365

DayOfYear(doe, yoe) == doe - (365 * yoe + yoe \div 4 - yoe \div 100)

MonthOf(mp) == IF mp < 10 THEN mp + 3 ELSE mp - 9

CivilFromParts(era, yoe, doy, mp) ==
    <<yoe + era * 400 + (IF MonthOf(mp) <= 2 THEN 1 ELSE 0),
      MonthOf(mp),
      doy - (153 * mp + 2) \div 5 + 1>>

CivilFromDoy(era, yoe, doy) == CivilFromParts(era, yoe, doy, (5 * doy + 2) \div 153)

CivilFromYoe(era, doe, yoe) == CivilFromDoy(era, yoe, DayOfYear(doe, yoe))

CivilFromEra(z, era) ==
    CivilFromYoe(era, z - era * 146097, YearOfEra(z - era * 146097))

CivilFromDays(days) == CivilFromEra(days + 719468, (days + 719468) \div 146097)

\* Day number of a civil date <<year, month, day>>.
DaysFromParts(era, yoe, doy) ==
    era * 146097 + (yoe * 365 + yoe \div 4 - yoe \div 100 + doy) - 719468

DaysFromShifted(y0, mp, d) ==
    DaysFromParts(y0 \div 400, y0 - (y0 \div 400) * 400, (153 * mp + 2) \div 5 + d - 1)

DaysFromCivil(ymd) ==
    DaysFromShifted(IF ymd[2] <= 2 THEN ymd[1] - 1 ELSE ymd[1],
                    IF ymd[2] > 2 THEN ymd[2] - 3 ELSE ymd[2] + 9,
                    ymd[3])

\* new Date(Date.UTC(y, m-1, d, h)): the instant of a UTC wall-clock reading.
UTCInstant(y, m, d, h) == DaysFromCivil(<<y, m, d>>) * 24 + h

\* The time value of an Invalid Date (NaN), as new Date(dateStr) makes of a
\* string that is no date; no instant of the model is that early.
InvalidTime == 0 - 99999999
IsInvalidDate(t) == t = InvalidTime

\* Day number of the local calendar day an instant falls on.
LocalDay(t) == (t + tz) \div 24

\* Date.prototype.getFullYear: the local calendar year.
GetFullYear(t) == CivilFromDays(LocalDay(t))[1]

\* Date.prototype.getDay: the local day of the week, 0 = Sunday .. 6 = Saturday
\* (1970-01-01 was a Thursday).
GetDay(t) == (LocalDay(t) + 4) % 7

\* result.setDate(result.getDate() - 1): one local calendar day back, same
\* local wall-clock time.
SetDateMinusOne(t) == t - 24

\* Day of the week of a civil date.
WeekdayOfCivil(ymd) == (DaysFromCivil(ymd) + 4) % 7

---------------------------------------------------------------------------
(* Strings the code inspects are sequences of one-character strings.       *)

\* An optional value: None when absent (undefined), Some(x) when present.
None == <<>>
Some(x) == <<x>>
Get(o) == o[1]

PLN == <<"P", "L", "N">>
USD == <<"U", "S", "D">>
EUR == <<"E", "U", "R">>
GBP == <<"G", "B", "P">>
CHF == <<"C", "H", "F">>
AUD == <<"A", "U", "D">>
CAD == <<"C", "A", "D">>
JPY == <<"J", "P", "Y">>
pln == <<"p", "l", "n">>
usd == <<"u", "s", "d">>

\* String.prototype.toUpperCase, letter by letter, over the letters in use.
UpperChar(c) ==
    CASE c = "p" -> "P" [] c = "l" -> "L" [] c = "n" -> "N"
      [] c = "u" -> "U" [] c = "s" -> "S" [] c = "d" -> "D"
      [] c = "e" -> "E" [] c = "r" -> "R"
      [] OTHER -> c

ToUpperCase(s) == [i \in DOMAIN s |-> UpperChar(s[i])]

\* String.prototype.includes
Includes(s, sub) ==
    \E i \in 0..(Len(s) - Len(sub)) : SubSeq(s, i + 1, i + Len(sub)) = sub

\* JavaScript truthiness of an optional number / an optional string.
TruthyNumber(o) == o # None /\ Get(o) # 0
TruthyString(o) == o # None /\ Get(o) # <<>>

\* o || 0 for an optional number
OrZero(o) == IF TruthyNumber(o) THEN Get(o) ELSE 0

---------------------------------------------------------------------------
(* Transaction (types: Transaction).  The fields the engine reads; an      *)
(* absent optional field is None.       cryptoSymbol, cryptoAmount and     *)
(* exchangeName are never read by the engine and are left out.             *)

TransactionTypes ==
    {"buy", "sell", "crypto_swap", "fee", "transfer_in", "transfer_out",
     "payment", "staking_reward", "airdrop", "unknown"}

Tx(type, date, fiatAmount, fiatCurrency, fee, feeCurrency, notes) ==
    [id |-> <<0, 0>>, date |-> date, type |-> type,
     fiatAmount |-> fiatAmount, fiatCurrency |-> fiatCurrency,
     fee |-> fee, feeCurrency |-> feeCurrency, notes |-> notes,
     nbpExchangeRate |-> None, amountInPLN |-> None, feeInPLN |-> None]

---------------------------------------------------------------------------
(* Classifier: taxCalculator.ts isTaxableSale / isDeductibleCost           *)

IsTaxableSaleWithSwap(transaction) ==
    transaction.type \in {"sell", "payment", "crypto_swap"}

isTaxableSale(transaction) ==
    transaction.type = "sell" \/ transaction.type = "payment"

IsDeductibleCostAnyFee(transaction) ==
    transaction.type = "buy" \/ transaction.type = "fee"

isDeductibleCost(transaction) ==
    IF transaction.type = "buy" THEN TRUE
    ELSE IF /\ transaction.type = "fee"
            /\ transaction.notes # None
            /\ Includes(Get(transaction.notes), <<"s", "e", "l", "l">>) THEN TRUE
    ELSE FALSE

---------------------------------------------------------------------------
(* nbpService: the rate resolver                                           *)

RECURSIVE BackToWeekday(_)
BackToWeekday(t) ==
    IF GetDay(t) = 0 \/ GetDay(t) = 6 THEN BackToWeekday(SetDateMinusOne(t))
    ELSE t

getLastBusinessDay(date) == BackToWeekday(SetDateMinusOne(date))

\* date.toISOString().split('T')[0]: the UTC calendar date, <<y, m, d>>.
formatDateForAPI(date) == CivilFromDays(date \div 24)

CacheKey(currencyCode, date) == <<ToUpperCase(currencyCode), formatDateForAPI(date)>>

NeverPLN(currencyCode) == FALSE

\* currencyCode.toUpperCase() === 'PLN'
IsLocalCurrency(currencyCode) == ToUpperCase(currencyCode) = PLN

getFallbackRate(currencyCode) ==
    LET c == ToUpperCase(currencyCode)
    IN  CASE c = USD -> 4000 [] c = EUR -> 4300 [] c = GBP -> 5100
          [] c = CHF -> 4500 [] c = AUD -> 2600 [] c = CAD -> 3000
          [] c = JPY -> 27   [] OTHER -> 4000

\* amount * exchangeRate (convertToPLN), rate in thousandths.
ToPLN(amount, exchangeRate) == (amount * exchangeRate) \div 1000

\* What the rate source can answer to one query: the fetch rejects or the
\* body does not parse ("error"), a non-OK status ("notok"), or a body whose
\* rates list holds these mid values, oldest first.
SourceRates == {3900, 4100}

Responses ==
    {[status |-> "error", rates |-> <<>>],
     [status |-> "notok", rates |-> <<>>],
     [status |-> "ok", rates |-> <<>>],
     [status |-> "ok", rates |-> <<3900>>],
     [status |-> "ok", rates |-> <<3900, 4100>>]}

Callers == {"calc", "direct"}

\* An activation of getNBPExchangeRate: its arguments, its locals rateDate
\* and cacheKey, where it stands (idle / exact / nearest / done, or rejected
\* when it threw), the date range of the query in flight, how many queries
\* it has issued, the rates each query published (none when it failed),
\* whether it has written the cache, and the rate it returned.
IdleLookup ==
    [stage |-> "idle", currencyCode |-> <<>>, transactionDate |-> 0,
     rateDate |-> 0, cacheKey |-> <<>>, query |-> <<>>, fetches |-> 0,
     exactRates |-> <<>>, nearestRates |-> <<>>,
     wrote |-> FALSE, rate |-> 0]

LookupIgnoringCache(base, cache) ==
    [base EXCEPT !.stage = "exact", !.fetches = 1,
                 !.query = <<base.cacheKey[2], base.cacheKey[2]>>]

\* The activation past the cache check, for a currency that is not PLN.
LookupPastCache(base, cache) ==
    IF base.cacheKey \in DOMAIN cache
    THEN [base EXCEPT !.stage = "done", !.rate = cache[base.cacheKey]]
    ELSE [base EXCEPT !.stage = "exact", !.fetches = 1,
                      !.query = <<base.cacheKey[2], base.cacheKey[2]>>]

LookupWithDate(currencyCode, transactionDate, rateDate, cache) ==
    LookupPastCache([IdleLookup EXCEPT !.currencyCode = currencyCode,
                                       !.transactionDate = transactionDate,
                                       !.rateDate = rateDate,
                                       !.cacheKey = CacheKey(currencyCode, rateDate)],
                    cache)

\* The synchronous head of getNBPExchangeRate (lines 244-256 and the fetch
\* issued at 260): the activation it leaves behind.
\* Of an Invalid Date getLastBusinessDay returns an Invalid Date, and
\* toISOString in formatDateForAPI throws a RangeError: the call rejects.
BeginLookup(currencyCode, transactionDate, cache) ==
    IF IsLocalCurrency(currencyCode)
    THEN [IdleLookup EXCEPT !.stage = "done", !.currencyCode = currencyCode,
                            !.transactionDate = transactionDate, !.rate = 1000]
    ELSE IF IsInvalidDate(transactionDate)
    THEN [IdleLookup EXCEPT !.stage = "rejected", !.currencyCode = currencyCode,
                            !.transactionDate = transactionDate]
    ELSE LookupWithDate(currencyCode, transactionDate,
                        getLastBusinessDay(transactionDate), cache)

\* searchStartDate.setDate(searchStartDate.getDate() - 7), then both ends
\* formatted: the range getNearestNBPRate asks for.
NearestQuery(startDate) ==
    <<formatDateForAPI(startDate - 7 * 24), formatDateForAPI(startDate)>>

CacheSet(cache, key, rate) ==
    [k \in DOMAIN cache \cup {key} |-> IF k = key THEN rate ELSE cache[k]]

\* History of rateCache.set: the first rate a key was ever given.
Remember(history, key, rate) ==
    IF key \in DOMAIN history THEN history
    ELSE [k \in DOMAIN history \cup {key} |->
            IF k = key THEN [rate |-> rate, cleared |-> FALSE] ELSE history[k]]

\* History of rateCache.clear.
Forget(history) == [k \in DOMAIN history |-> [history[k] EXCEPT !.cleared = TRUE]]

\* data.rates[0].mid of the exact-date answer
ExactRate(rates) == rates[1]

OldestRate(rates) == rates[1]

\* data.rates[data.rates.length - 1].mid of the 7-day answer
NearestRate(rates) == rates[Len(rates)]

---------------------------------------------------------------------------
(* taxCalculator.ts: the tax engine                                        *)

\* A sort that puts an element before the ones of its own date.
RECURSIVE InsertBeforeEqual(_, _)
InsertBeforeEqual(sorted, tx) ==
    IF sorted = <<>> THEN <<tx>>
    ELSE IF Head(sorted).date - tx.date >= 0 THEN <<tx>> \o sorted
    ELSE <<Head(sorted)>> \o InsertBeforeEqual(Tail(sorted), tx)

\* allTransactions.sort((a, b) => a.date.getTime() - b.date.getTime()):
\* a stable sort, as insertion behind every element that is not later.
RECURSIVE InsertByDate(_, _)
InsertByDate(sorted, tx) ==
    IF sorted = <<>> THEN <<tx>>
    ELSE IF Head(sorted).date - tx.date > 0 THEN <<tx>> \o sorted
    ELSE <<Head(sorted)>> \o InsertByDate(Tail(sorted), tx)

RECURSIVE SortByDate(_)
SortByDate(s) ==
    IF s = <<>> THEN <<>>
    ELSE InsertByDate(SortByDate(SubSeq(s, 1, Len(s) - 1)), s[Len(s)])

\* for (const file of files) allTransactions.push(...file.transactions)
Concatenate(fs) == FlattenSeq(fs)

NeedsFiatConversion(tx) == tx.fiatCurrency # PLN /\ tx.fiatAmount > 0
HasFee(tx) == TruthyNumber(tx.fee) /\ TruthyString(tx.feeCurrency)

\* The rate getNBPExchangeRate returns without suspending (local currency or
\* cache hit), or None when it has to fetch.
SyncRate(currencyCode, date, cache) ==
    LET l == BeginLookup(currencyCode, date, cache)
    IN  IF l.stage = "done" THEN Some(l.rate) ELSE None

\* txCopy after the conversion awaited in `slot` returned `rate`.
ApplyRate(slot, txCopy, rate) ==
    IF slot = "fiat"
    THEN [txCopy EXCEPT !.nbpExchangeRate = Some(rate),
                        !.amountInPLN = Some(ToPLN(txCopy.fiatAmount, rate))]
    ELSE [txCopy EXCEPT !.feeInPLN = Some(ToPLN(Get(txCopy.fee), rate))]

\* calculatePLNAmounts from transaction i, conversion `slot`, run until it
\* has to wait for the network or the list is exhausted.
RECURSIVE Resume(_, _, _, _, _, _)
Resume(txs, cache, i, slot, txCopy, result) ==
    IF i > Len(txs)
    THEN [i |-> i, slot |-> "fiat", txCopy |-> None, result |-> result,
          suspended |-> FALSE]
    ELSE
      LET tx == txs[i] IN
      IF slot = "fiat"
      THEN IF NeedsFiatConversion(tx)
           THEN LET r == SyncRate(tx.fiatCurrency, tx.date, cache)
                IN  IF r = None
                    THEN [i |-> i, slot |-> "fiat", txCopy |-> Some(tx),
                          result |-> result, suspended |-> TRUE]
                    ELSE Resume(txs, cache, i, "fee",
                                Some(ApplyRate("fiat", tx, Get(r))), result)
           ELSE Resume(txs, cache, i, "fee",
                       Some([tx EXCEPT !.amountInPLN = Some(tx.fiatAmount),
                                       !.nbpExchangeRate = Some(1000)]),
                       result)
      ELSE IF HasFee(tx)
           THEN IF Get(tx.feeCurrency) # PLN
                THEN LET r == SyncRate(Get(tx.feeCurrency), tx.date, cache)
                     IN  IF r = None
                         THEN [i |-> i, slot |-> "fee", txCopy |-> txCopy,
                               result |-> result, suspended |-> TRUE]
                         ELSE Resume(txs, cache, i + 1, "fiat", None,
                                     Append(result,
                                            ApplyRate("fee", Get(txCopy), Get(r))))
                ELSE Resume(txs, cache, i + 1, "fiat", None,
                            Append(result,
                                   [Get(txCopy) EXCEPT !.feeInPLN = tx.fee]))
           ELSE Resume(txs, cache, i + 1, "fiat", None,
                       Append(result, Get(txCopy)))

\* groupByYear: the Map's keys in insertion order, and the group of one key.
RECURSIVE YearKeys(_, _)
YearKeys(txs, seen) ==
    IF txs = <<>> THEN seen
    ELSE LET year == GetFullYear(Head(txs).date)
         IN  YearKeys(Tail(txs),
                      IF year \in Range(seen) THEN seen ELSE Append(seen, year))

YearGroup(txs, year) ==
    LET InYear(tx) == GetFullYear(tx.date) = year
    IN  SelectSeq(txs, InYear)

\* String(n) as UTF-16 code units: what the default sort compares.
RECURSIVE DigitCodes(_)
DigitCodes(n) ==
    IF n < 10 THEN <<48 + n>> ELSE DigitCodes(n \div 10) \o <<48 + (n % 10)>>

NumberToString(n) == IF n < 0 THEN <<45>> \o DigitCodes(0 - n) ELSE DigitCodes(n)

RECURSIVE StringLess(_, _)
StringLess(a, b) ==
    IF a = <<>> THEN b # <<>>
    ELSE IF b = <<>> THEN FALSE
    ELSE IF Head(a) # Head(b) THEN Head(a) < Head(b)
    ELSE StringLess(Tail(a), Tail(b))

\* Array.prototype.sort() with no comparator: ascending by String(element).
RECURSIVE InsertByString(_, _)
InsertByString(sorted, n) ==
    IF sorted = <<>> THEN <<n>>
    ELSE IF StringLess(NumberToString(n), NumberToString(Head(sorted)))
         THEN <<n>> \o sorted
    ELSE <<Head(sorted)>> \o InsertByString(Tail(sorted), n)

RECURSIVE DefaultSort(_)
DefaultSort(s) ==
    IF s = <<>> THEN <<>>
    ELSE InsertByString(DefaultSort(SubSeq(s, 1, Len(s) - 1)), s[Len(s)])

\* Math.round(x * 100) / 100 on an amount in mills (round half up).
Round2(x) == ((x + 5) \div 10) * 10

\* TAX_RATE, in per cent
TAX_RATE == 19

\* Math.round(income * TAX_RATE * 100) / 100, in mills, without forming the
\* product income * 19 of large amounts.
RoundedTax(income) ==
    10 * (TAX_RATE * (income \div 1000)
          + (TAX_RATE * (income % 1000) + 500) \div 1000)

RECURSIVE SumRevenue(_)
SumRevenue(taxableSales) ==
    IF taxableSales = <<>> THEN 0
    ELSE SumRevenue(SubSeq(taxableSales, 1, Len(taxableSales) - 1))
         + OrZero(taxableSales[Len(taxableSales)].amountInPLN)

CostWithoutFee(tx) == OrZero(tx.amountInPLN)

CostOf(tx) ==
    OrZero(tx.amountInPLN) + (IF TruthyNumber(tx.feeInPLN) THEN Get(tx.feeInPLN) ELSE 0)

RECURSIVE SumCosts(_)
SumCosts(acquisitions) ==
    IF acquisitions = <<>> THEN 0
    ELSE SumCosts(SubSeq(acquisitions, 1, Len(acquisitions) - 1))
         + CostOf(acquisitions[Len(acquisitions)])

SignedIncome(revenue, totalCosts) == revenue - totalCosts

\* Math.max(revenue - totalCosts, 0)
Income(revenue, totalCosts) == Max(revenue - totalCosts, 0)

\* Every cost carried on, whatever the revenue.
CarryAllCosts(revenue, totalCosts) == Max(totalCosts, 0)

\* Math.max(totalCosts - revenue, 0)
CarryForwardOf(revenue, totalCosts) == Max(totalCosts - revenue, 0)

calculateYearTax(year, transactions, carryForwardFromPreviousYear) ==
    LET taxableSales == SelectSeq(transactions, isTaxableSale)
        acquisitions == SelectSeq(transactions, isDeductibleCost)
        revenue == SumRevenue(taxableSales)
        currentYearCosts == SumCosts(acquisitions)
        previousYearsCosts == carryForwardFromPreviousYear
        totalCosts == currentYearCosts + previousYearsCosts
        income == Income(revenue, totalCosts)
        carryForwardCosts == CarryForwardOf(revenue, totalCosts)
    IN  [year |-> year,
         revenue |-> Round2(revenue),
         currentYearCosts |-> Round2(currentYearCosts),
         previousYearsCosts |-> Round2(previousYearsCosts),
         totalCosts |-> Round2(totalCosts),
         income |-> Round2(income),
         tax |-> RoundedTax(income),
         carryForwardCosts |-> Round2(carryForwardCosts),
         taxableTransactions |-> taxableSales,
         acquisitionTransactions |-> acquisitions]

\* The loop of calculateTax over the sorted years: the TaxYear list and the
\* value carryForward ends with.
RECURSIVE YearLoop(_, _, _, _)
YearLoop(years, txs, carry, taxYears) ==
    IF years = <<>> THEN [taxYears |-> taxYears, carryForward |-> carry]
    ELSE CHOOSE out \in
             {YearLoop(Tail(years), txs, taxYear.carryForwardCosts,
                       Append(taxYears, taxYear)) :
                 taxYear \in {calculateYearTax(Head(years),
                                               YearGroup(txs, Head(years)), carry)}} :
             TRUE

StaleCarryForward(previousCarryForwardCosts) == carryForward

\* let carryForward = previousCarryForwardCosts
CarrySeed(previousCarryForwardCosts) == previousCarryForwardCosts

SortedYears(txs) == DefaultSort(YearKeys(txs, <<>>))

GrandTotalCostsOfTotalCosts(taxYears) ==
    SumSeq([k \in DOMAIN taxYears |-> taxYears[k].totalCosts])

\* taxYears.reduce((sum, y) => sum + y.currentYearCosts, 0)
GrandTotalCosts(taxYears) ==
    SumSeq([k \in DOMAIN taxYears |-> taxYears[k].currentYearCosts])

\* The tail of calculateTax, once every amount is resolved (lines 172-206).
\* id is generateId() and createdAt/updatedAt are new Date(): readings of the
\* clock, `now`.  name and files are the arguments, stored as given.
Totals(loop, now) ==
    [calculation |->
       [id |-> now, createdAt |-> now, updatedAt |-> now,
        years |-> loop.taxYears,
        totalRevenue |-> Round2(SumSeq([k \in DOMAIN loop.taxYears |-> loop.taxYears[k].revenue])),
        totalCosts |-> Round2(GrandTotalCosts(loop.taxYears)),
        totalIncome |-> Round2(SumSeq([k \in DOMAIN loop.taxYears |-> loop.taxYears[k].income])),
        totalTax |-> Round2(SumSeq([k \in DOMAIN loop.taxYears |-> loop.taxYears[k].tax]))],
     carryForward |-> loop.carryForward]

\* The sorted years and the loop's outcome are each bound as a value, so
\* that they are computed once.
FinishCalculation(txs, previousCarryForwardCosts, now) ==
    CHOOSE out \in {Totals(loop, now) :
                       loop \in {YearLoop(years, txs,
                                          CarrySeed(previousCarryForwardCosts), <<>>) :
                                     years \in {SortedYears(txs)}}} : TRUE

---------------------------------------------------------------------------
(* Ingestion: the text of headers and cells.  Letters outside ASCII are    *)
(* written as the base letter followed by ~ and count as one character.    *)

Uppers == <<"A", "B", "C", "D", "E", "F", "G", "H", "I", "J", "K", "L", "M", "N", "O", "P", "Q", "R", "S", "T", "U", "V", "W", "X", "Y", "Z">>
Lowers == <<"a", "b", "c", "d", "e", "f", "g", "h", "i", "j", "k", "l", "m", "n", "o", "p", "q", "r", "s", "t", "u", "v", "w", "x", "y", "z">>

\* String.prototype.toLowerCase, letter by letter.
LowerChar(c) ==
    IF \E i \in 1..26 : Uppers[i] = c
    THEN Lowers[CHOOSE i \in 1..26 : Uppers[i] = c]
    ELSE c

ToLowerCase(s) == [i \in DOMAIN s |-> LowerChar(s[i])]

Digits == <<"0", "1", "2", "3", "4", "5", "6", "7", "8", "9">>
IsDigit(c) == \E i \in 1..10 : Digits[i] = c
DigitValue(c) == (CHOOSE i \in 1..10 : Digits[i] = c) - 1

\* Length of the run of decimal digits a string starts with.
RECURSIVE DigitRun(_)
DigitRun(s) ==
    IF s # <<>> /\ IsDigit(Head(s)) THEN 1 + DigitRun(Tail(s)) ELSE 0

\* Value of a string of decimal digits, continuing from acc.
RECURSIVE DecimalValue(_, _)
DecimalValue(acc, s) ==
    IF s = <<>> THEN acc
    ELSE DecimalValue(acc * 10 + DigitValue(Head(s)), Tail(s))

\* The fraction digits after a decimal point, in mills (three places).
FractionMills(digits) ==
    DecimalValue(0, SubSeq(digits \o <<"0", "0", "0">>, 1, 3))

\* The digits that follow the integer part's point, if there is a point.
FractionDigits(rest) ==
    IF rest # <<>> /\ Head(rest) = "."
    THEN SubSeq(rest, 2, 1 + DigitRun(Tail(rest)))
    ELSE <<>>

\* An unsigned decimal prefix "ddd.ddd" read as mills, None (NaN) when the
\* string starts with no numeral.  Exponents and leading blanks do not
\* occur in the cells of the model.
UnsignedPrefix(s, n) ==
    IF n = 0 /\ FractionDigits(s) = <<>> THEN None
    ELSE Some(DecimalValue(0, SubSeq(s, 1, n)) * 1000
              + FractionMills(FractionDigits(SubSeq(s, n + 1, Len(s)))))

Negated(o) == IF o = None THEN None ELSE Some(0 - Get(o))

\* parseFloat(cell): the longest numeric prefix, NaN (None) when there is
\* none or the cell is undefined.
parseFloat(cell) ==
    IF cell = None \/ Get(cell) = <<>> THEN None
    ELSE IF Head(Get(cell)) = "-"
         THEN Negated(UnsignedPrefix(Tail(Get(cell)), DigitRun(Tail(Get(cell)))))
         ELSE UnsignedPrefix(Get(cell), DigitRun(Get(cell)))

\* Math.abs
Abs(x) == IF x < 0 THEN 0 - x ELSE x

\* A date-only ISO string "YYYY-MM-DD".
IsIsoDate(s) ==
    /\ Len(s) = 10
    /\ s[5] = "-" /\ s[8] = "-"
    /\ \A i \in {1, 2, 3, 4, 6, 7, 9, 10} : IsDigit(s[i])

IsoField(s, from, to) == DecimalValue(0, SubSeq(s, from, to))

\* new Date(dateStr): a date-only ISO string is that day's UTC midnight;
\* text that is no date gives an Invalid Date.
NewDate(dateStr) ==
    IF /\ IsIsoDate(dateStr)
       /\ IsoField(dateStr, 6, 7) \in 1..12
       /\ IsoField(dateStr, 9, 10) \in 1..31
    THEN UTCInstant(IsoField(dateStr, 1, 4), IsoField(dateStr, 6, 7),
                    IsoField(dateStr, 9, 10), 0)
    ELSE InvalidTime

\* row[key]: the cell under a column, undefined (None) without that column.
Cell(row, key) == IF key \in DOMAIN row THEN Some(row[key]) ELSE None

\* a || b for optional strings, and a || ''
OrElse(a, b) == IF TruthyString(a) THEN a ELSE b
OrEmpty(a) == IF TruthyString(a) THEN Get(a) ELSE <<>>

\* Array.prototype.find over the headers: the first header whose lower-case
\* form is one of keys, undefined (None) when there is none.
FindHeader(headers, keys) ==
    IF \E i \in DOMAIN headers : ToLowerCase(headers[i]) \in keys
    THEN Some(headers[CHOOSE i \in DOMAIN headers :
                  /\ ToLowerCase(headers[i]) \in keys
                  /\ \A j \in 1..(i - 1) : ToLowerCase(headers[j]) \notin keys])
    ELSE None

---------------------------------------------------------------------------
(* Ingestion: taxCalculator.ts detectExchangeFormat and the row parsers    *)

\* A parsed Transaction: the fields of Tx and the ones only ingestion and
\* validation read.  The id is the parser's prefix and the row index (its
\* Date.now() suffix is left out).
ParsedTx(id, date, type, cryptoSymbol, cryptoAmount, fiatAmount, fiatCurrency, fee, feeCurrency, exchangeName) ==
    [id |-> id, date |-> date, type |-> type,
     cryptoSymbol |-> cryptoSymbol, cryptoAmount |-> cryptoAmount,
     fiatAmount |-> fiatAmount, fiatCurrency |-> fiatCurrency,
     fee |-> fee, feeCurrency |-> feeCurrency, notes |-> None,
     exchangeName |-> exchangeName,
     nbpExchangeRate |-> None, amountInPLN |-> None, feeInPLN |-> None]

\* headers.map(h => h.toLowerCase())
HeaderLower(headers) == [i \in DOMAIN headers |-> ToLowerCase(headers[i])]

\* Array.prototype.includes
ArrayIncludes(array, x) == \E i \in DOMAIN array : array[i] = x

IsBinance(lower) ==
    ArrayIncludes(lower, <<"o", "p", "e", "r", "a", "t", "i", "o", "n">>) /\ ArrayIncludes(lower, <<"c", "o", "i", "n">>)
IsKraken(lower) ==
    ArrayIncludes(lower, <<"t", "x", "i", "d">>) /\ ArrayIncludes(lower, <<"p", "a", "i", "r">>)
IsCoinbase(lower) ==
    ArrayIncludes(lower, <<"t", "r", "a", "n", "s", "a", "c", "t", "i", "o", "n", " ", "t", "y", "p", "e">>) /\ ArrayIncludes(lower, <<"a", "s", "s", "e", "t">>)
IsBitBay(lower) ==
    ArrayIncludes(lower, <<"t", "y", "p">>) /\ ArrayIncludes(lower, <<"w", "a", "l", "u", "t", "a">>)

\* The same tests with Kraken's ahead of Binance's.
DetectKrakenFirst(headers) ==
    IF IsKraken(HeaderLower(headers)) THEN "parseKrakenRow"
    ELSE IF IsBinance(HeaderLower(headers)) THEN "parseBinanceRow"
    ELSE IF IsCoinbase(HeaderLower(headers)) THEN "parseCoinbaseRow"
    ELSE IF IsBitBay(HeaderLower(headers)) THEN "parseBitBayRow"
    ELSE "parseGenericRow"

\* detectExchangeFormat(headers): the parser chosen, by name.
detectExchangeFormat(headers) ==
    IF IsBinance(HeaderLower(headers)) THEN "parseBinanceRow"
    ELSE IF IsKraken(HeaderLower(headers)) THEN "parseKrakenRow"
    ELSE IF IsCoinbase(HeaderLower(headers)) THEN "parseCoinbaseRow"
    ELSE IF IsBitBay(HeaderLower(headers)) THEN "parseBitBayRow"
    ELSE "parseGenericRow"

\* parseBinanceRow: the kind from the operation text and the sign of change.
BinanceType(operation, change) ==
    IF Includes(operation, <<"b", "u", "y">>) \/ Includes(operation, <<"d", "e", "p", "o", "s", "i", "t">>)
    THEN (IF change > 0 THEN "buy" ELSE "sell")
    ELSE IF Includes(operation, <<"s", "e", "l", "l">>) \/ Includes(operation, <<"w", "i", "t", "h", "d", "r", "a", "w">>)
    THEN "sell"
    ELSE IF Includes(operation, <<"f", "e", "e">>) THEN "fee"
    ELSE IF Includes(operation, <<"t", "r", "a", "n", "s", "f", "e", "r">>)
    THEN (IF change > 0 THEN "transfer_in" ELSE "transfer_out")
    ELSE "unknown"

\* A Binance row taken to state its value in USD.
BinanceWithFiat(operation, coin, change, dateStr, index) ==
    IF dateStr = <<>> \/ coin = <<>> THEN None
    ELSE Some(ParsedTx(<<"binance", index>>, NewDate(dateStr),
                       BinanceType(operation, change), coin, Abs(change),
                       Abs(change), USD, None, None, "Binance"))

BinanceFrom(operation, coin, change, dateStr, index) ==
    IF dateStr = <<>> \/ coin = <<>> THEN None
    ELSE Some(ParsedTx(<<"binance", index>>, NewDate(dateStr),
                       BinanceType(operation, change), coin, Abs(change),
                       0, USD, None, None, "Binance"))

parseBinanceRow(row, headers, index) ==
    BinanceFrom(ToLowerCase(OrEmpty(Cell(row, <<"O", "p", "e", "r", "a", "t", "i", "o", "n">>))),
                OrEmpty(Cell(row, <<"C", "o", "i", "n">>)),
                OrZero(parseFloat(Cell(row, <<"C", "h", "a", "n", "g", "e">>))),
                OrEmpty(OrElse(Cell(row, <<"U", "T", "C", "_", "T", "i", "m", "e">>), Cell(row, <<"D", "a", "t", "e">>))),
                index)

\* pair.replace(/USD|EUR|PLN|GBP/gi, '')
RECURSIVE StripFiatCodes(_)
StripFiatCodes(s) ==
    IF s = <<>> THEN <<>>
    ELSE IF /\ Len(s) >= 3
            /\ ToLowerCase(SubSeq(s, 1, 3)) \in { <<"u", "s", "d">>, <<"e", "u", "r">>, <<"p", "l", "n">>, <<"g", "b", "p">> }
    THEN StripFiatCodes(SubSeq(s, 4, Len(s)))
    ELSE <<Head(s)>> \o StripFiatCodes(Tail(s))

\* .replace(/X/g, '')
IsNotX(c) == c # "X"
StripX(s) == SelectSeq(s, IsNotX)

KrakenType(txType) ==
    IF txType = <<"b", "u", "y">> THEN "buy"
    ELSE IF txType = <<"s", "e", "l", "l">> THEN "sell"
    ELSE "unknown"

KrakenFrom(txType, pair, cost, vol, fee, dateStr, index) ==
    IF dateStr = <<>> \/ pair = <<>> THEN None
    ELSE Some(ParsedTx(<<"kraken", index>>, NewDate(dateStr),
                       KrakenType(txType), StripX(StripFiatCodes(pair)), vol,
                       cost, USD, Some(fee), Some(USD), "Kraken"))

parseKrakenRow(row, headers, index) ==
    KrakenFrom(ToLowerCase(OrEmpty(Cell(row, <<"t", "y", "p", "e">>))),
               OrEmpty(Cell(row, <<"p", "a", "i", "r">>)),
               OrZero(parseFloat(Cell(row, <<"c", "o", "s", "t">>))),
               OrZero(parseFloat(Cell(row, <<"v", "o", "l">>))),
               OrZero(parseFloat(Cell(row, <<"f", "e", "e">>))),
               OrEmpty(Cell(row, <<"t", "i", "m", "e">>)),
               index)

CoinbaseType(txType) ==
    IF txType = <<"b", "u", "y">> THEN "buy"
    ELSE IF txType = <<"s", "e", "l", "l">> THEN "sell"
    ELSE IF txType = <<"r", "e", "c", "e", "i", "v", "e">> THEN "transfer_in"
    ELSE IF txType = <<"s", "e", "n", "d">> THEN "transfer_out"
    ELSE "unknown"

\* total || (quantity * spotPrice), in mills
CoinbaseFiat(total, quantity, spotPrice) ==
    IF total # 0 THEN total ELSE (quantity * spotPrice) \div 1000

CoinbaseFrom(txType, asset, quantity, spotPrice, total, fees, dateStr, index) ==
    IF dateStr = <<>> \/ asset = <<>> THEN None
    ELSE Some(ParsedTx(<<"coinbase", index>>, NewDate(dateStr),
                       CoinbaseType(txType), asset, quantity,
                       CoinbaseFiat(total, quantity, spotPrice), USD,
                       Some(fees), Some(USD), "Coinbase"))

parseCoinbaseRow(row, headers, index) ==
    CoinbaseFrom(ToLowerCase(OrEmpty(Cell(row, <<"T", "r", "a", "n", "s", "a", "c", "t", "i", "o", "n", " ", "T", "y", "p", "e">>))),
                 OrEmpty(Cell(row, <<"A", "s", "s", "e", "t">>)),
                 OrZero(parseFloat(Cell(row, <<"Q", "u", "a", "n", "t", "i", "t", "y", " ", "T", "r", "a", "n", "s", "a", "c", "t", "e", "d">>))),
                 OrZero(parseFloat(Cell(row, <<"S", "p", "o", "t", " ", "P", "r", "i", "c", "e", " ", "a", "t", " ", "T", "r", "a", "n", "s", "a", "c", "t", "i", "o", "n">>))),
                 OrZero(parseFloat(Cell(row, <<"T", "o", "t", "a", "l", " ", "(", "i", "n", "c", "l", "u", "s", "i", "v", "e", " ", "o", "f", " ", "f", "e", "e", "s", ")">>))),
                 OrZero(parseFloat(Cell(row, <<"F", "e", "e", "s">>))),
                 OrEmpty(Cell(row, <<"T", "i", "m", "e", "s", "t", "a", "m", "p">>)),
                 index)

BitBayType(typ) ==
    IF Includes(typ, <<"k", "u", "p", "n", "o">>) \/ Includes(typ, <<"b", "u", "y">>) THEN "buy"
    ELSE IF Includes(typ, <<"s", "p", "r", "z", "e", "d", "a", "z~">>) \/ Includes(typ, <<"s", "e", "l", "l">>) THEN "sell"
    ELSE IF Includes(typ, <<"w", "p", "l~", "a", "t", "a">>) \/ Includes(typ, <<"d", "e", "p", "o", "s", "i", "t">>)
    THEN "transfer_in"
    ELSE IF Includes(typ, <<"w", "y", "p", "l~", "a", "t", "a">>) \/ Includes(typ, <<"w", "i", "t", "h", "d", "r", "a", "w">>)
    THEN "transfer_out"
    ELSE IF Includes(typ, <<"p", "r", "o", "w", "i", "z", "j", "a">>) \/ Includes(typ, <<"f", "e", "e">>) THEN "fee"
    ELSE "unknown"

BitBayFrom(typ, waluta, kwota, dateStr, index) ==
    IF dateStr = <<>> \/ waluta = <<>> THEN None
    ELSE Some(ParsedTx(<<"bitbay", index>>, NewDate(dateStr), BitBayType(typ),
                       waluta, Abs(kwota), 0, PLN, None, None, "BitBay/Zonda"))

parseBitBayRow(row, headers, index) ==
    BitBayFrom(ToLowerCase(OrEmpty(OrElse(Cell(row, <<"T", "y", "p">>), Cell(row, <<"T", "y", "p", "e">>)))),
               OrEmpty(OrElse(Cell(row, <<"W", "a", "l", "u", "t", "a">>), Cell(row, <<"C", "u", "r", "r", "e", "n", "c", "y">>))),
               OrZero(parseFloat(Some(OrEmpty(
                   OrElse(OrElse(Cell(row, <<"K", "w", "o", "t", "a">>), Cell(row, <<"A", "m", "o", "u", "n", "t">>)),
                          Some(<<"0">>)))))),
               OrEmpty(OrElse(Cell(row, <<"D", "a", "t", "a">>), Cell(row, <<"D", "a", "t", "e">>))),
               index)

dateKeys == { <<"d", "a", "t", "e">>, <<"d", "a", "t", "a">>, <<"t", "i", "m", "e">>, <<"t", "i", "m", "e", "s", "t", "a", "m", "p">>, <<"d", "a", "t", "e", "t", "i", "m", "e">>, <<"u", "t", "c", "_", "t", "i", "m", "e">> }
typeKeys == { <<"t", "y", "p", "e">>, <<"t", "y", "p">>, <<"o", "p", "e", "r", "a", "t", "i", "o", "n">>, <<"s", "i", "d", "e">>, <<"a", "c", "t", "i", "o", "n">> }
amountKeys == { <<"a", "m", "o", "u", "n", "t">>, <<"k", "w", "o", "t", "a">>, <<"q", "u", "a", "n", "t", "i", "t", "y">>, <<"v", "o", "l">>, <<"v", "o", "l", "u", "m", "e">>, <<"s", "i", "z", "e">> }
symbolKeys == { <<"s", "y", "m", "b", "o", "l">>, <<"c", "o", "i", "n">>, <<"a", "s", "s", "e", "t">>, <<"c", "u", "r", "r", "e", "n", "c", "y">>, <<"w", "a", "l", "u", "t", "a">>, <<"p", "a", "i", "r">> }
priceKeys == { <<"p", "r", "i", "c", "e">>, <<"c", "e", "n", "a">>, <<"t", "o", "t", "a", "l">>, <<"c", "o", "s", "t">>, <<"v", "a", "l", "u", "e">>, <<"w", "a", "r", "t", "o", "s~", "c~">> }

GenericType(typeStr) ==
    IF Includes(typeStr, <<"b", "u", "y">>) \/ Includes(typeStr, <<"k", "u", "p">>) THEN "buy"
    ELSE IF Includes(typeStr, <<"s", "e", "l", "l">>) \/ Includes(typeStr, <<"s", "p", "r", "z", "e", "d">>) THEN "sell"
    ELSE "unknown"

\* key ? row[key] : otherwise, for an optional column name
UnderKey(row, key) == IF key = None THEN None ELSE Cell(row, Get(key))

\* key ? Math.abs(parseFloat(row[key]) || 0) : 0
MagnitudeUnder(row, key) ==
    IF key = None THEN 0 ELSE Abs(OrZero(parseFloat(Cell(row, Get(key)))))

\* The symbol is 'UNKNOWN' without a symbol column; an undefined cell under
\* the column is kept as the empty text.
GenericSymbol(row, symbolKey) ==
    IF symbolKey = None THEN <<"U", "N", "K", "N", "O", "W", "N">> ELSE OrEmpty(Cell(row, Get(symbolKey)))

GenericFrom(row, dateKey, typeKey, amountKey, symbolKey, priceKey, index) ==
    IF dateKey = None THEN None
    ELSE IF ~TruthyString(Cell(row, Get(dateKey))) THEN None
    ELSE Some(ParsedTx(<<"generic", index>>,
                       NewDate(Get(Cell(row, Get(dateKey)))),
                       GenericType(ToLowerCase(OrEmpty(UnderKey(row, typeKey)))),
                       GenericSymbol(row, symbolKey),
                       MagnitudeUnder(row, amountKey),
                       MagnitudeUnder(row, priceKey),
                       PLN, None, None, "Custom"))

parseGenericRow(row, headers, index) ==
    GenericFrom(row, FindHeader(headers, dateKeys), FindHeader(headers, typeKeys),
                FindHeader(headers, amountKeys), FindHeader(headers, symbolKeys),
                FindHeader(headers, priceKeys), index)

\* parser(row, headers, index) for the parser detectExchangeFormat named.
ApplyParser(parser, row, headers, index) ==
    CASE parser = "parseBinanceRow" -> parseBinanceRow(row, headers, index)
      [] parser = "parseKrakenRow" -> parseKrakenRow(row, headers, index)
      [] parser = "parseCoinbaseRow" -> parseCoinbaseRow(row, headers, index)
      [] parser = "parseBitBayRow" -> parseBitBayRow(row, headers, index)
      [] OTHER -> parseGenericRow(row, headers, index)

---------------------------------------------------------------------------
(* Ingestion: taxCalculator.ts parseFile and the file readers.  The        *)
(* content of a file is its header line and its data lines, each line the  *)
(* list of its cells.                                                      *)

MAX_FILE_SIZE_MB == 50
MAX_FILE_SIZE_BYTES == MAX_FILE_SIZE_MB * 1024 * 1024

\* fileName.split('.').pop(): the text after the last dot, the whole name
\* when it has no dot.
RECURSIVE AfterLastDot(_)
AfterLastDot(s) ==
    IF ~ArrayIncludes(s, ".") THEN s
    ELSE AfterLastDot(Tail(s))

\* getFileType(fileName, mimeType)
FileTypeOf(extension, mimeType) ==
    IF extension = <<"c", "s", "v">> \/ Includes(mimeType, <<"c", "s", "v">>) THEN "csv"
    ELSE IF \/ extension = <<"x", "l", "s", "x">> \/ extension = <<"x", "l", "s">>
            \/ Includes(mimeType, <<"s", "p", "r", "e", "a", "d", "s", "h", "e", "e", "t">>)
            \/ Includes(mimeType, <<"e", "x", "c", "e", "l">>)
    THEN "xlsx"
    ELSE IF extension = <<"p", "d", "f">> \/ Includes(mimeType, <<"p", "d", "f">>) THEN "pdf"
    ELSE "csv"

getFileType(fileName, mimeType) ==
    FileTypeOf(ToLowerCase(AfterLastDot(fileName)), mimeType)

\* String.prototype.trim, for blanks
RECURSIVE TrimStart(_)
TrimStart(s) == IF s # <<>> /\ Head(s) = " " THEN TrimStart(Tail(s)) ELSE s

RECURSIVE TrimEnd(_)
TrimEnd(s) ==
    IF s # <<>> /\ s[Len(s)] = " " THEN TrimEnd(SubSeq(s, 1, Len(s) - 1)) ELSE s

Trim(s) == TrimEnd(TrimStart(s))

\* The last column that carries a header name.
LastColumn(headers, h) ==
    CHOOSE i \in DOMAIN headers :
        headers[i] = h /\ \A j \in DOMAIN headers : headers[j] = h => j <= i

\* Papa.parse with header: true: a line becomes an object keyed by the
\* header names; a line shorter than the header line has no key for the
\* columns it lacks.
CsvRow(headers, line) ==
    [h \in {k \in Range(headers) : LastColumn(headers, k) <= Len(line)}
        |-> line[LastColumn(headers, h)]]

\* parseXLSX: row[header] = String(rowArray[index] || ''), every header a key.
XlsxRow(headers, line) ==
    [h \in Range(headers) |->
        IF LastColumn(headers, h) <= Len(line)
        THEN line[LastColumn(headers, h)] ELSE <<>>]

EmptyParse == [transactions |-> <<>>, parseErrors |-> <<>>]

\* One turn of the row loop: a transaction is pushed when the parser
\* returned one.  The catch branch, which pushes "Wiersz <n>: ...", runs
\* only when the parser throws, which no parser does on text cells.
AfterRow(acc, transaction) ==
    IF transaction # None
    THEN [acc EXCEPT !.transactions = Append(@, Get(transaction))]
    ELSE acc

\* rows.forEach / for (i = 1; ...): rows from the i-th on, the first row
\* having index `base`.
RECURSIVE ParseRows(_, _, _, _, _, _)
ParseRows(parser, headers, rows, base, i, acc) ==
    IF i > Len(rows) THEN acc
    ELSE ParseRows(parser, headers, rows, base, i + 1,
                   AfterRow(acc, ApplyParser(parser, rows[i], headers,
                                             base + i - 1)))

ParsedFile(fileType, result) ==
    [fileType |-> fileType, transactions |-> result.transactions,
     parseErrors |-> result.parseErrors]

CsvRows(content) ==
    [i \in DOMAIN content.lines |-> CsvRow(content.headers, content.lines[i])]

\* parseCSV, once the content is read
parseCSV(content) ==
    ParsedFile("csv",
               ParseRows(detectExchangeFormat(content.headers), content.headers,
                         CsvRows(content), 0, 1, EmptyParse))

XlsxHeaders(content) == [i \in DOMAIN content.headers |-> Trim(content.headers[i])]

XlsxRows(content) ==
    [i \in DOMAIN content.lines |-> XlsxRow(XlsxHeaders(content), content.lines[i])]

\* parseXLSX, once readFile settled: a failed read or an unreadable
\* workbook leaves one message and no transaction, and so does a sheet
\* without a data row.
parseXLSX(content, readable) ==
    IF ~readable
    THEN ParsedFile("xlsx", [EmptyParse EXCEPT !.parseErrors =
                                <<"Blad parsowania XLSX">>])
    ELSE IF Len(content.lines) + 1 < 2
    THEN ParsedFile("xlsx", [EmptyParse EXCEPT !.parseErrors =
                                <<"Plik jest pusty lub nie zawiera danych">>])
    ELSE ParsedFile("xlsx",
                    ParseRows(detectExchangeFormat(XlsxHeaders(content)),
                              XlsxHeaders(content), XlsxRows(content),
                              1, 1, EmptyParse))

\* parsePDF
parsePDF ==
    ParsedFile("pdf", [EmptyParse EXCEPT !.parseErrors =
        <<"Parsowanie PDF wymaga recznego wprowadzenia danych.",
          "Prosze wyeksportowac dane z gieldy do formatu CSV lub XLSX.">>])

\* The parser parseCSV / parseXLSX hold in `parser`, None when detection is
\* not reached.
ParserUsed(fileType, content, readable) ==
    IF fileType = "csv" THEN Some(detectExchangeFormat(content.headers))
    ELSE IF fileType = "xlsx" /\ readable /\ Len(content.lines) + 1 >= 2
    THEN Some(detectExchangeFormat(XlsxHeaders(content)))
    ELSE None

---------------------------------------------------------------------------
(* Inputs                                                                  *)

MaxTx == 2       \* transactions in one calculateTax call
MaxFiles == 2    \* files they are spread over

TimeZones == {0, 1}            \* UTC, and Europe/Warsaw in winter
RateTimeZones == {-5, 0, 1}    \* also America/New_York in winter

\* Incoming carry-forward, in mills: parseFloat of the user's text, or the
\* stored amount.  -5.00, 0, 20.005
CarryIns == {-5000, 0, 20005}

\* Readings of Date.now()
Clock == {1, 2}

D999  == UTCInstant(999, 6, 15, 12)
D1000 == UTCInstant(1000, 6, 15, 12)
D2023 == UTCInstant(2023, 6, 15, 12)
DMid  == UTCInstant(2024, 6, 14, 12)
D2026 == UTCInstant(2026, 6, 15, 12)
DNewYearsEve == UTCInstant(2023, 12, 31, 23)   \* 2024-01-01 00:00 in Warsaw
DMonNoon  == UTCInstant(2024, 1, 15, 12)       \* a Monday
DMonLate  == UTCInstant(2024, 1, 15, 23)       \* Tuesday 00:00 in Warsaw
DWedEarly == UTCInstant(2024, 1, 17, 2)        \* Tuesday 21:00 in New York
DSaturday == UTCInstant(2024, 1, 13, 12)

Plain(type, date, fiatAmount) == Tx(type, date, fiatAmount, PLN, None, None, None)

\* One transaction of every kind, and fees with and without a note.
ClassifierTxs ==
    {Plain(t, DMid, 1004) : t \in TransactionTypes}
    \cup {Tx("fee", DMid, 996, PLN, None, None,
             Some(<<"s", "e", "l", "l", " ", "f", "e", "e">>)),
          Tx("fee", DMid, 996, PLN, None, None, Some(<<"S", "e", "l", "l">>))}

\* Purchases and disposals over several years, 100,000.00 / 150,000.00 /
\* 80,000.00 and amounts finer than a grosz.
YearTxs ==
    {Plain("buy", D2023, 100000000), Plain("sell", D2023, 150000000),
     Plain("sell", DMid, 80000000),
     Plain("buy", D999, 100000000), Plain("sell", D1000, 80000000),
     Plain("crypto_swap", D2026, 1004),
     Tx("buy", DNewYearsEve, 1004, PLN, Some(996), Some(PLN), None)}

\* Foreign-currency amounts and fees.
RateTxs ==
    {Tx("sell", DMonLate, 20000, USD, None, None, None),
     Tx("buy", DMonLate, 10000, USD, Some(1000), Some(USD), None),
     Tx("buy", DMonNoon, 10010, EUR, Some(500), Some(PLN), None),
     Tx("sell", DMonNoon, 5004, pln, Some(1000), None, None)}

\* Transactions to be computed more than once: a purchase with a fee, both
\* in USD; a disposal that comes with a rate of 3.5 and its PLN amount
\* already attached; a purchase in PLN.
ReplayTxs ==
    {Tx("buy", DMonLate, 10000, USD, Some(1000), Some(USD), None),
     [Tx("sell", DMonLate, 20000, USD, None, None, None)
        EXCEPT !.nbpExchangeRate = Some(3500), !.amountInPLN = Some(70000)],
     Plain("buy", D2023, 100000000)}

\* Amounts finer than a grosz in two consecutive years: 0.996 and 1.004
\* bought, 1.004 and 1.004 sold.
RoundingTxs ==
    {Plain("buy", D2023, 996), Plain("buy", DMid, 1004),
     Plain("sell", D2023, 1004), Plain("sell", DMid, 1004)}

TxFamilies == {ClassifierTxs, YearTxs, RateTxs, RoundingTxs}

\* The ways to cut a list into at most n consecutive non-empty files.
RECURSIVE Splits(_, _)
Splits(flat, n) ==
    IF flat = <<>> THEN {<<>>}
    ELSE IF n = 0 THEN {}
    ELSE UNION {{<<SubSeq(flat, 1, k)>> \o rest :
                    rest \in Splits(SubSeq(flat, k + 1, Len(flat)), n - 1)} :
                k \in 1..Len(flat)}

\* Transaction ids name the source row: <<file, row>>.
AttachIds(fs) ==
    [f \in DOMAIN fs |-> [r \in DOMAIN fs[f] |-> [fs[f][r] EXCEPT !.id = <<f, r>>]]]

WorkloadsOver(family) ==
    {AttachIds(fs) : fs \in UNION {Splits(flat, MaxFiles) : flat \in BoundedSeq(family, MaxTx)}}
    \cup {<< <<>> >>}

Workloads == UNION {WorkloadsOver(family) : family \in TxFamilies}

---------------------------------------------------------------------------
(* State machine                                                           *)

IdleCursor == [i |-> 0, slot |-> "fiat", txCopy |-> None]

\* handleAddFile at rest: no file picked, nothing parsed, no alert shown.
IdleAdd == [stage |-> "idle", picked |-> None, contentRead |-> FALSE,
            parser |-> None, parsed |-> None, error |-> None]

\* AsyncStorage with none of the app's keys set.
EmptyStorage == [calculations |-> None, records |-> <<>>, carryForwardCosts |-> None]

\* No storageService call made yet.
NoCall == [fn |-> "none", stage |-> "idle", calculation |-> None, id |-> 0,
           list |-> <<>>, year |-> 0]

InitCommon ==
    /\ pc = "idle"
    /\ allTransactions = <<>>
    /\ transactionsWithPLN = <<>>
    /\ cursor = IdleCursor
    /\ carryForward = 0
    /\ calculation = None
    /\ first = None
    /\ firstResolved = None
    /\ rateCache = <<>>
    /\ everCached = <<>>
    /\ lk = [c \in Callers |-> IdleLookup]
    /\ adding = IdleAdd
    /\ asyncStorage = EmptyStorage
    /\ call = NoCall

Init ==
    /\ tz \in TimeZones
    /\ files \in Workloads
    /\ previousCosts \in CarryIns
    /\ InitCommon

\* const txCopy = tx: the writes to txCopy land in the input object.
InputAliased(tx, txCopy) == txCopy

\* const txCopy = { ...tx }: txCopy is a new object, and the input object
\* keeps its fields whatever is written to txCopy.
InputAfter(tx, txCopy) == tx

\* The batches as they stand once the transactions of `result` are
\* resolved.  file.transactions are arrays of their own (allTransactions is
\* built by push and sorted by itself), so their order is the one given.
InputsAfter(fs, result) ==
    [f \in DOMAIN fs |->
       [row \in DOMAIN fs[f] |->
          IF \E i \in DOMAIN result : result[i].id = <<f, row>>
          THEN InputAfter(fs[f][row],
                          result[CHOOSE i \in DOMAIN result : result[i].id = <<f, row>>])
          ELSE fs[f][row]]]

\* The getNBPExchangeRate call calculatePLNAmounts is suspended in at
\* configuration r.
AwaitedLookup(r, txs, cache) ==
    BeginLookup(IF r.slot = "fiat" THEN txs[r.i].fiatCurrency
                                   ELSE Get(txs[r.i].feeCurrency),
                txs[r.i].date, cache)

\* calculateTax moves on after calculatePLNAmounts reached configuration r:
\* either it waits for the fetch it issued (or rejects with the call that
\* threw), or it runs to its return.
ContinueCalc(r, txs, cache, lastLookup) ==
    /\ transactionsWithPLN' = r.result
    /\ files' = InputsAfter(files, r.result)
    /\ cursor' = [i |-> r.i, slot |-> r.slot, txCopy |-> r.txCopy]
    /\ IF r.suspended
       THEN /\ pc' = IF AwaitedLookup(r, txs, cache).stage = "rejected"
                     THEN "rejected" ELSE "resolving"
            /\ lk' = [lk EXCEPT !["calc"] = AwaitedLookup(r, txs, cache)]
            /\ UNCHANGED <<calculation, carryForward, first, firstResolved>>
       ELSE \E now \in Clock :
              \E out \in {FinishCalculation(r.result, previousCosts, now)} :
                  /\ pc' = "done"
                  /\ lk' = [lk EXCEPT !["calc"] = lastLookup]
                  /\ calculation' = Some(out.calculation)
                  /\ carryForward' = out.carryForward
                  /\ first' = IF first = None THEN Some(out.calculation) ELSE first
                  /\ firstResolved' =
                        IF first = None THEN Some(r.result) ELSE firstResolved

\* calculateTax(files, previousCosts), entered when the engine is at `at`.
CalculateTaxFrom(at) ==
    /\ pc = at
    /\ \E all \in {SortByDate(Concatenate(files))} :
           /\ allTransactions' = all
           /\ \E r \in {Resume(all, rateCache, 1, "fiat", None, <<>>)} :
                  ContinueCalc(r, all, rateCache, lk["calc"])
    /\ UNCHANGED <<tz, asyncStorage, call, adding, previousCosts, rateCache, everCached>>

CalculateTax == CalculateTaxFrom("idle")

\* The same screen computes again, with the same files and carry-forward.
CalculateTaxAgain == CalculateTaxFrom("done")

\* A finished getNBPExchangeRate hands its rate to its caller: calculateTax
\* resumes in the same turn (and rejects if the call rejected), a direct
\* caller keeps the result.
Deliver(c, finished, cache) ==
    IF c = "calc" /\ finished.stage = "done"
    THEN \E txCopy \in {ApplyRate(cursor.slot, Get(cursor.txCopy), finished.rate)} :
         \E r \in {IF cursor.slot = "fiat"
                    THEN Resume(allTransactions, cache, cursor.i, "fee",
                                Some(txCopy), transactionsWithPLN)
                    ELSE Resume(allTransactions, cache, cursor.i + 1, "fiat",
                                None, Append(transactionsWithPLN, txCopy))} :
             /\ ContinueCalc(r, allTransactions, cache, finished)
             /\ UNCHANGED allTransactions
    ELSE /\ lk' = [lk EXCEPT ![c] = finished]
         /\ pc' = IF c = "calc" THEN "rejected" ELSE pc
         /\ UNCHANGED <<files, allTransactions, transactionsWithPLN, cursor,
                        carryForward, calculation, first, firstResolved>>

\* The rates a response publishes: those of its body when the status is OK
\* and the body parses as an NBPExchangeRate, none otherwise.
Published(resp) == IF resp.status = "ok" THEN resp.rates ELSE <<>>

\* The answer to the exact-date query arrives (getNBPExchangeRate 260-280).
FetchExactResponds(c, resp) ==
    /\ lk[c].stage = "exact"
    /\ IF Published(resp) # <<>>
       THEN /\ rateCache' = CacheSet(rateCache, lk[c].cacheKey, ExactRate(resp.rates))
            /\ everCached' = Remember(everCached, lk[c].cacheKey, ExactRate(resp.rates))
            /\ Deliver(c, [lk[c] EXCEPT !.stage = "done",
                                        !.rate = ExactRate(resp.rates),
                                        !.exactRates = resp.rates,
                                        !.wrote = TRUE],
                       CacheSet(rateCache, lk[c].cacheKey, ExactRate(resp.rates)))
       ELSE /\ lk' = [lk EXCEPT ![c].stage = "nearest", ![c].fetches = 2,
                                ![c].query = NearestQuery(lk[c].rateDate)]
            /\ UNCHANGED <<rateCache, everCached, pc, files, allTransactions,
                           transactionsWithPLN, cursor, carryForward,
                           calculation, first, firstResolved>>
    /\ UNCHANGED <<tz, asyncStorage, call, adding, previousCosts>>

NearestKeyAtStart(l) == <<ToUpperCase(l.currencyCode), l.query[1]>>

\* `${currencyCode.toUpperCase()}_${endDate}`, the key getNearestNBPRate
\* caches under.
NearestKey(l) == <<ToUpperCase(l.currencyCode), l.query[2]>>

\* rateCache.set(cacheKey, rate) of getNearestNBPRate, the rate being the
\* last of the list.
NearestCache(l, resp) ==
    CacheSet(rateCache, NearestKey(l), NearestRate(resp.rates))

\* The catch of getNearestNBPRate rethrowing what it caught.
NearestThrows(l) == [l EXCEPT !.stage = "rejected"]

\* The catch of getNearestNBPRate: return getFallbackRate(currencyCode).
NearestFailed(l) ==
    [l EXCEPT !.stage = "done", !.rate = getFallbackRate(l.currencyCode)]

\* The answer to the 7-day query arrives (getNearestNBPRate 296-322).
FetchNearestResponds(c, resp) ==
    /\ lk[c].stage = "nearest"
    /\ IF Published(resp) # <<>>
       THEN /\ rateCache' = NearestCache(lk[c], resp)
            /\ everCached' = Remember(everCached, NearestKey(lk[c]),
                                      NearestRate(resp.rates))
            /\ Deliver(c, [lk[c] EXCEPT !.stage = "done",
                                        !.rate = NearestRate(resp.rates),
                                        !.nearestRates = resp.rates,
                                        !.wrote = TRUE],
                       NearestCache(lk[c], resp))
       ELSE /\ UNCHANGED <<rateCache, everCached>>
            /\ Deliver(c, NearestFailed(lk[c]), rateCache)
    /\ UNCHANGED <<tz, asyncStorage, call, adding, previousCosts>>

Next ==
    \/ CalculateTax
    \/ \E resp \in Responses : FetchExactResponds("calc", resp)
    \/ \E resp \in Responses : FetchNearestResponds("calc", resp)

Spec == Init /\ [][Next]_vars

---------------------------------------------------------------------------
(* The same screen computing more than once                                *)

InitReplay ==
    /\ tz \in TimeZones
    /\ files \in WorkloadsOver(ReplayTxs)
    /\ previousCosts \in CarryIns
    /\ InitCommon

NextReplay ==
    \/ CalculateTax
    \/ CalculateTaxAgain
    \/ \E resp \in Responses : FetchExactResponds("calc", resp)
    \/ \E resp \in Responses : FetchNearestResponds("calc", resp)

SpecReplay == InitReplay /\ [][NextReplay]_vars

---------------------------------------------------------------------------
(* The rate resolver called on its own                                     *)

RateCurrencies == {PLN, pln, USD, usd}
RateDates == {DMonNoon, DMonLate, DWedEarly, DSaturday, InvalidTime}

\* getNBPExchangeRate(currencyCode, transactionDate), up to its first await.
GetNBPExchangeRate(currencyCode, transactionDate) ==
    /\ lk["direct"].stage \in {"idle", "done", "rejected"}
    /\ lk' = [lk EXCEPT !["direct"] =
                 BeginLookup(currencyCode, transactionDate, rateCache)]
    /\ UNCHANGED <<tz, asyncStorage, call, files, adding, previousCosts, pc, allTransactions,
                   transactionsWithPLN, cursor, carryForward, calculation,
                   first, firstResolved, rateCache, everCached>>

\* clearRateCache()
ClearRateCache ==
    /\ rateCache # <<>>
    /\ rateCache' = <<>>
    /\ everCached' = Forget(everCached)
    /\ UNCHANGED <<tz, asyncStorage, call, files, adding, previousCosts, pc, allTransactions,
                   transactionsWithPLN, cursor, carryForward, calculation,
                   first, firstResolved, lk>>

InitRates ==
    /\ tz \in RateTimeZones
    /\ files = <<>>
    /\ previousCosts = 0
    /\ InitCommon

NextRates ==
    \/ \E currencyCode \in RateCurrencies, transactionDate \in RateDates :
          GetNBPExchangeRate(currencyCode, transactionDate)
    \/ \E resp \in Responses : FetchExactResponds("direct", resp)
    \/ \E resp \in Responses : FetchNearestResponds("direct", resp)
    \/ ClearRateCache

SpecRates == InitRates /\ [][NextRates]_vars

---------------------------------------------------------------------------
(* Adding a file to the batch: ImportScreen handleAddFile awaiting          *)
(* parseFile(uri, name, type)                                              *)

MaxLines == 2    \* data lines in a file

Content(headers, lines) == [headers |-> headers, lines |-> lines]

File(size, fileName, mimeType, content) ==
    [size |-> size, fileName |-> fileName, mimeType |-> mimeType,
     content |-> content]

\* Column names in the letter case of each exchange's export.
BinanceHeaders == << <<"U", "T", "C", "_", "T", "i", "m", "e">>, <<"O", "p", "e", "r", "a", "t", "i", "o", "n">>, <<"C", "o", "i", "n">>, <<"C", "h", "a", "n", "g", "e">> >>
KrakenHeaders ==
    << <<"t", "x", "i", "d">>, <<"p", "a", "i", "r">>, <<"t", "i", "m", "e">>, <<"t", "y", "p", "e">>, <<"c", "o", "s", "t">>, <<"v", "o", "l">>, <<"f", "e", "e">> >>
CoinbaseHeaders ==
    << <<"T", "i", "m", "e", "s", "t", "a", "m", "p">>, <<"T", "r", "a", "n", "s", "a", "c", "t", "i", "o", "n", " ", "T", "y", "p", "e">>, <<"A", "s", "s", "e", "t">>, <<"Q", "u", "a", "n", "t", "i", "t", "y", " ", "T", "r", "a", "n", "s", "a", "c", "t", "e", "d">>,
       <<"S", "p", "o", "t", " ", "P", "r", "i", "c", "e", " ", "a", "t", " ", "T", "r", "a", "n", "s", "a", "c", "t", "i", "o", "n">>, <<"T", "o", "t", "a", "l", " ", "(", "i", "n", "c", "l", "u", "s", "i", "v", "e", " ", "o", "f", " ", "f", "e", "e", "s", ")">>, <<"F", "e", "e", "s">> >>
BitBayHeaders == << <<"D", "a", "t", "a">>, <<"T", "y", "p">>, <<"W", "a", "l", "u", "t", "a">>, <<"K", "w", "o", "t", "a">> >>
GenericHeaders == << <<"D", "a", "t", "e">>, <<"S", "i", "d", "e">>, <<"S", "i", "z", "e">>, <<"S", "y", "m", "b", "o", "l">>, <<"V", "a", "l", "u", "e">> >>

\* Lines with dates that are present, empty and no date; symbols present
\* and empty; numbers positive, negative, empty and no number; a line that
\* ends after its first cell.
BinanceLines ==
    { << <<"2", "0", "2", "4", "-", "0", "1", "-", "1", "5">>, <<"B", "u", "y">>, <<"B", "T", "C">>, <<"0", ".", "5">> >>,
      << <<"2", "0", "2", "4", "-", "0", "1", "-", "1", "5">>, <<"W", "i", "t", "h", "d", "r", "a", "w">>, <<"B", "T", "C">>, <<"-", "0", ".", "5">> >>,
      << <<>>, <<"B", "u", "y">>, <<"B", "T", "C">>, <<"1">> >>,
      << <<"n", "/", "a">>, <<"S", "e", "l", "l">>, <<"B", "T", "C">>, <<"-", "1">> >>,
      << <<"2", "0", "2", "4", "-", "0", "1", "-", "1", "6">>, <<"F", "e", "e">>, <<>>, <<"a", "b", "c">> >>,
      << <<"2", "0", "2", "4", "-", "0", "1", "-", "1", "6">>, <<"T", "r", "a", "n", "s", "f", "e", "r">>, <<"E", "T", "H">>, <<"a", "b", "c">> >>,
      << <<"2", "0", "2", "4", "-", "0", "1", "-", "1", "7">> >> }

KrakenLines ==
    { << <<"T", "1">>, <<"X", "B", "T", "U", "S", "D">>, <<"2", "0", "2", "4", "-", "0", "1", "-", "1", "5">>, <<"b", "u", "y">>, <<"1", "0", "0">>, <<"0", ".", "5">>, <<"1", ".", "5">> >>,
      << <<"T", "2">>, <<"X", "B", "T", "U", "S", "D">>, <<"2", "0", "2", "4", "-", "0", "1", "-", "1", "5">>, <<"s", "e", "l", "l">>, <<"-", "1", "0", "0">>, <<"-", "0", ".", "5">>, <<"-", "1", ".", "5">> >>,
      << <<"T", "3">>, <<>>, <<"2", "0", "2", "4", "-", "0", "1", "-", "1", "5">>, <<"b", "u", "y">>, <<"1", "0", "0">>, <<"1">>, <<"0">> >>,
      << <<"T", "4">>, <<"E", "T", "H", "e", "u", "r">>, <<"n", "/", "a">>, <<"S", "e", "l", "l">>, <<"a", "b", "c">>, <<>>, <<"x">> >>,
      << <<"T", "5">>, <<"X", "B", "T", "U", "S", "D">>, <<>>, <<"b", "u", "y">>, <<"1", "0", "0">>, <<"1">>, <<"0">> >>,
      << <<"T", "6">> >> }

CoinbaseLines ==
    { << <<"2", "0", "2", "4", "-", "0", "1", "-", "1", "5">>, <<"B", "u", "y">>, <<"B", "T", "C">>, <<"0", ".", "5">>, <<"2", "0", "0">>, <<"1", "0", "1", ".", "5">>, <<"1", ".", "5">> >>,
      << <<"2", "0", "2", "4", "-", "0", "1", "-", "1", "5">>, <<"S", "e", "l", "l">>, <<"B", "T", "C">>, <<"-", "0", ".", "5">>, <<"2", "0", "0">>, <<"-", "9", "8", ".", "5">>, <<"-", "1", ".", "5">> >>,
      << <<"2", "0", "2", "4", "-", "0", "1", "-", "1", "5">>, <<"S", "e", "n", "d">>, <<"B", "T", "C">>, <<"-", "2">>, <<"2", "0", "0">>, <<>>, <<"a", "b", "c">> >>,
      << <<"2", "0", "2", "4", "-", "0", "1", "-", "1", "5">>, <<"R", "e", "c", "e", "i", "v", "e">>, <<>>, <<"1">>, <<"2", "0", "0">>, <<"2", "0", "0">>, <<"0">> >>,
      << <<"n", "/", "a">>, <<"B", "u", "y">>, <<"E", "T", "H">>, <<"1">>, <<>>, <<"a", "b", "c">>, <<>> >>,
      << <<>>, <<"B", "u", "y">>, <<"E", "T", "H">>, <<"1">>, <<"1", "0">>, <<"1", "0">>, <<"0">> >>,
      << <<"2", "0", "2", "4", "-", "0", "1", "-", "1", "7">> >> }

BitBayLines ==
    { << <<"2", "0", "2", "4", "-", "0", "1", "-", "1", "5">>, <<"K", "u", "p", "n", "o">>, <<"B", "T", "C">>, <<"2">> >>,
      << <<"2", "0", "2", "4", "-", "0", "1", "-", "1", "5">>, <<"S", "p", "r", "z", "e", "d", "a", "z~">>, <<"B", "T", "C">>, <<"-", "2">> >>,
      << <<"2", "0", "2", "4", "-", "0", "1", "-", "1", "6">>, <<"W", "p", "l~", "a", "t", "a">>, <<>>, <<"1">> >>,
      << <<"n", "/", "a">>, <<"P", "r", "o", "w", "i", "z", "j", "a">>, <<"B", "T", "C">>, <<"a", "b", "c">> >>,
      << <<>>, <<"W", "y", "p", "l~", "a", "t", "a">>, <<"B", "T", "C">>, <<>> >>,
      << <<"2", "0", "2", "4", "-", "0", "1", "-", "1", "7">> >> }

GenericLines ==
    { << <<"2", "0", "2", "4", "-", "0", "1", "-", "1", "5">>, <<"B", "U", "Y">>, <<"0", ".", "5">>, <<"B", "T", "C">>, <<"1", "0", "0">> >>,
      << <<"2", "0", "2", "4", "-", "0", "1", "-", "1", "5">>, <<"s", "p", "r", "z", "e", "d", "a", "z~">>, <<"-", "0", ".", "5">>, <<"B", "T", "C">>, <<"-", "1", "0", "0">> >>,
      << <<"2", "0", "2", "4", "-", "0", "1", "-", "1", "6">>, <<>>, <<"a", "b", "c">>, <<>>, <<>> >>,
      << <<"n", "/", "a">>, <<"s", "e", "l", "l">>, <<"1">>, <<"E", "T", "H">>, <<"1", "0">> >>,
      << <<>>, <<"b", "u", "y">>, <<"1">>, <<"E", "T", "H">>, <<"1", "0">> >>,
      << <<"2", "0", "2", "4", "-", "0", "1", "-", "1", "7">> >> }

ExportContents ==
    UNION { {Content(layout[1], lines) : lines \in BoundedSeq(layout[2], MaxLines)} :
           layout \in {<<BinanceHeaders, BinanceLines>>,
                       <<KrakenHeaders, KrakenLines>>,
                       <<CoinbaseHeaders, CoinbaseLines>>,
                       <<BitBayHeaders, BitBayLines>>,
                       <<GenericHeaders, GenericLines>>}}

\* Header lines that carry any part of the four signatures, in mixed letter
\* case and one with blanks around it: every selection of these columns, in
\* this order and in the opposite one.
SignatureColumns ==
    << <<"o", "p", "e", "r", "a", "t", "i", "o", "n">>, <<"C", "O", "I", "N">>, <<"T", "x", "I", "D">>, <<"p", "a", "i", "r">>, <<"T", "r", "a", "n", "s", "a", "c", "t", "i", "o", "n", " ", "T", "y", "p", "e">>,
       <<"a", "s", "s", "e", "t">>, <<" ", "T", "y", "p", " ">>, <<"W", "A", "L", "U", "T", "A">>, <<"D", "a", "t", "e">> >>

IsChosen(c) == c # <<>>

Selection(columns, chosen) ==
    SelectSeq([i \in DOMAIN columns |-> IF i \in chosen THEN columns[i] ELSE <<>>],
              IsChosen)

Reverse(s) == [i \in DOMAIN s |-> s[Len(s) + 1 - i]]

SignatureHeaders ==
    {Selection(SignatureColumns, chosen) : chosen \in SUBSET DOMAIN SignatureColumns}
    \cup {Reverse(Selection(SignatureColumns, chosen)) :
             chosen \in SUBSET DOMAIN SignatureColumns}

\* Under such a header line, one data line with a date in every cell.
DatedLine(headers) == [i \in DOMAIN headers |-> <<"2", "0", "2", "4", "-", "0", "1", "-", "1", "5">>]

SignatureContents == {Content(h, <<DatedLine(h)>>) : h \in SignatureHeaders}

Contents == ExportContents \cup SignatureContents

\* Sizes around the limit, and names and MIME types of every kind.
Sizes == {1024, MAX_FILE_SIZE_BYTES - 1, MAX_FILE_SIZE_BYTES,
          MAX_FILE_SIZE_BYTES + 1, 2 * MAX_FILE_SIZE_BYTES}

Names ==
    { <<<<"t", "r", "a", "d", "e", "s", ".", "c", "s", "v">>, <<"t", "e", "x", "t", "/", "c", "s", "v">>>>,
      <<<<"t", "r", "a", "d", "e", "s", ".", "X", "L", "S", "X">>, <<"a", "p", "p", "l", "i", "c", "a", "t", "i", "o", "n", "/", "o", "c", "t", "e", "t", "-", "s", "t", "r", "e", "a", "m">>>>,
      <<<<"r", "e", "p", "o", "r", "t", ".", "v", "2", ".", "x", "l", "s">>, <<"a", "p", "p", "l", "i", "c", "a", "t", "i", "o", "n", "/", "v", "n", "d", ".", "m", "s", "-", "e", "x", "c", "e", "l">>>>,
      <<<<"e", "x", "p", "o", "r", "t">>, <<"t", "e", "x", "t", "/", "c", "o", "m", "m", "a", "-", "s", "e", "p", "a", "r", "a", "t", "e", "d", "-", "v", "a", "l", "u", "e", "s">>>>,
      <<<<"e", "x", "p", "o", "r", "t">>, <<"a", "p", "p", "l", "i", "c", "a", "t", "i", "o", "n", "/", "v", "n", "d", ".", "o", "p", "e", "n", "x", "m", "l", "f", "o", "r", "m", "a", "t", "s", "-", "o", "f", "f", "i", "c", "e", "d", "o", "c", "u", "m", "e", "n", "t", ".", "s", "p", "r", "e", "a", "d", "s", "h", "e", "e", "t", "m", "l", ".", "s", "h", "e", "e", "t">>>>,
      <<<<"s", "t", "a", "t", "e", "m", "e", "n", "t", ".", "p", "d", "f">>, <<"a", "p", "p", "l", "i", "c", "a", "t", "i", "o", "n", "/", "p", "d", "f">>>>,
      <<<<"n", "o", "t", "e", "s", ".", "t", "x", "t">>, <<"t", "e", "x", "t", "/", "p", "l", "a", "i", "n">>>> }

\* Every content as a CSV and as a workbook of ordinary size, and every
\* size under every name with one content.
PickedFiles ==
    {File(1024, name[1], name[2], content) :
        name \in { <<<<"t", "r", "a", "d", "e", "s", ".", "c", "s", "v">>, <<"t", "e", "x", "t", "/", "c", "s", "v">>>>,
                   <<<<"t", "r", "a", "d", "e", "s", ".", "X", "L", "S", "X">>, <<"a", "p", "p", "l", "i", "c", "a", "t", "i", "o", "n", "/", "o", "c", "t", "e", "t", "-", "s", "t", "r", "e", "a", "m">>>> },
        content \in Contents}
    \cup {File(size, name[1], name[2], content) :
            size \in Sizes, name \in Names,
            content \in {Content(BinanceHeaders, lines) :
                            lines \in BoundedSeq(BinanceLines, 1)}}

\* The batch the screen opened with: the file parsed on the home screen.
OpeningFiles ==
    {<<parseCSV(Content(BinanceHeaders,
                        << << <<"2", "0", "2", "4", "-", "0", "1", "-", "1", "5">>, <<"B", "u", "y">>, <<"B", "T", "C">>, <<"0", ".", "5">> >> >>)).transactions>>,
     <<parseCSV(Content(KrakenHeaders, <<>>)).transactions>>}

\* One file is added to the batch the screen opened with; an attempt that
\* ended in the alert may be repeated.
CanAdd == adding.stage \in {"idle", "alert"}

\* handleAddFile, up to parseFile's await of RNFS.stat: pickFile returned
\* `file`.
HandleAddFile(file) ==
    /\ CanAdd
    /\ adding' = [IdleAdd EXCEPT !.stage = "stat", !.picked = Some(file)]
    /\ UNCHANGED <<tz, asyncStorage, call, files, previousCosts, pc, allTransactions,
                   transactionsWithPLN, cursor, carryForward, calculation,
                   first, firstResolved, rateCache, everCached, lk>>

Picked == Get(adding.picked)
PickedType == getFileType(Picked.fileName, Picked.mimeType)

\* setFiles([...files, parsedFile])
FileAdded(parser, parsedFile) ==
    /\ adding' = [adding EXCEPT !.stage = "added", !.parser = parser,
                                !.parsed = Some(parsedFile)]
    /\ files' = Append(files, parsedFile.transactions)

\* parseFile threw or rejected with `error`: handleAddFile's catch shows the
\* alert, and the handler's locals are gone.
AddFailed(error) ==
    /\ adding' = [adding EXCEPT !.stage = "alert", !.picked = None,
                                !.error = Some(error)]
    /\ UNCHANGED files

\* A limit one byte higher.
ExceedsLimitByTwo(size) == size > MAX_FILE_SIZE_BYTES + 1

\* fileInfo.size > MAX_FILE_SIZE_BYTES
ExceedsLimit(size) == size > MAX_FILE_SIZE_BYTES

SizeError == "Plik jest zbyt duzy. Maksymalny rozmiar: 50MB"

\* RNFS.stat resolves: parseFile checks the size, then starts the reader
\* for the file's type.
StatResolves ==
    /\ adding.stage = "stat"
    /\ IF ExceedsLimit(Picked.size) THEN AddFailed(SizeError)
       ELSE IF PickedType = "pdf" THEN FileAdded(None, parsePDF)
       ELSE /\ adding' = [adding EXCEPT !.stage = "reading", !.contentRead = TRUE]
            /\ UNCHANGED files
    /\ UNCHANGED <<tz, asyncStorage, call, previousCosts, pc, allTransactions,
                   transactionsWithPLN, cursor, carryForward, calculation,
                   first, firstResolved, rateCache, everCached, lk>>

\* RNFS.readFile settles, with the content or with a rejection.
ReadFileSettles(readable) ==
    /\ adding.stage = "reading"
    /\ IF PickedType = "xlsx"
       THEN FileAdded(ParserUsed("xlsx", Picked.content, readable),
                      parseXLSX(Picked.content, readable))
       ELSE IF readable
       THEN FileAdded(ParserUsed("csv", Picked.content, readable),
                      parseCSV(Picked.content))
       ELSE AddFailed("readFile")
    /\ UNCHANGED <<tz, asyncStorage, call, previousCosts, pc, allTransactions,
                   transactionsWithPLN, cursor, carryForward, calculation,
                   first, firstResolved, rateCache, everCached, lk>>

InitParse ==
    /\ tz = 0
    /\ files \in OpeningFiles
    /\ previousCosts = 0
    /\ InitCommon

NextParse ==
    \/ \E file \in PickedFiles : HandleAddFile(file)
    \/ StatResolves
    \/ \E readable \in BOOLEAN : ReadFileSettles(readable)

SpecParse == InitParse /\ [][NextParse]_vars

---------------------------------------------------------------------------
(* Properties                                                              *)

Returned == pc = "done"
TaxYears == Get(calculation).years

\* The transactions of one TaxYear's calendar year, amounts resolved.
GroupOf(taxYear) ==
    LET InYear(tx) == GetFullYear(tx.date) = taxYear.year
    IN  SelectSeq(transactionsWithPLN, InYear)

\* The carry-forward handed to the k-th year computed.
CarryInto(k) ==
    IF k = 1 THEN previousCosts ELSE TaxYears[k - 1].carryForwardCosts

AmountSum(txs) == SumSeq([i \in DOMAIN txs |-> OrZero(txs[i].amountInPLN)])
FeeSum(txs) == SumSeq([i \in DOMAIN txs |-> OrZero(txs[i].feeInPLN)])

\* C1: every TaxYear returned by calculateTax has income >= 0 and
\* carryForwardCosts >= 0, whatever the transactions and the incoming
\* carry-forward (a negative one included).
C1_NonNegative ==
    Returned =>
        \A k \in DOMAIN TaxYears :
            TaxYears[k].income >= 0 /\ TaxYears[k].carryForwardCosts >= 0

\* A negative incoming carry-forward, one year that owes tax.
C1_Witness ==
    /\ Returned
    /\ previousCosts < 0
    /\ \E k \in DOMAIN TaxYears :
          TaxYears[k].income > 0 /\ TaxYears[k].carryForwardCosts = 0

\* C2: for two TaxYears Y < Y' of one result with no TaxYear in between (Y'
\* is the next year that has transactions), previousYearsCosts(Y') equals
\* carryForwardCosts(Y).  Violated: cost in 999 followed by revenue in 1000
\* is computed with year 1000 first.
C2_CarriedToNextYear ==
    Returned =>
        \A j, k \in DOMAIN TaxYears :
            (/\ TaxYears[j].year < TaxYears[k].year
             /\ ~ \E m \in DOMAIN TaxYears :
                    /\ TaxYears[j].year < TaxYears[m].year
                    /\ TaxYears[m].year < TaxYears[k].year)
            => TaxYears[k].previousYearsCosts = TaxYears[j].carryForwardCosts

\* C3 as stated: the returned figures satisfy the formulas exactly.
C3_ExactFigures ==
    Returned =>
        \A k \in DOMAIN TaxYears :
            LET y == TaxYears[k] IN
            /\ y.revenue = AmountSum(y.taxableTransactions)
            /\ y.currentYearCosts =
                  AmountSum(y.acquisitionTransactions) + FeeSum(y.acquisitionTransactions)
            /\ y.totalCosts = y.currentYearCosts + y.previousYearsCosts
            /\ y.income = Max(y.revenue - y.totalCosts, 0)
            /\ y.carryForwardCosts = Max(y.totalCosts - y.revenue, 0)
            /\ 100 * (y.tax \div 10) = TAX_RATE * (y.income \div 10)

\* x is the amount of mills `exact` rounded half up to whole grosze.
IsRounded(x, exact) == x % 10 = 0 /\ x - 5 <= exact /\ exact < x + 5

\* grosze is 19 per cent of `exact` mills, rounded half up to whole grosze
\* (19 * exact is formed for the mills below one zloty only).
IsRoundedTax(grosze, exact) ==
    LET rest == grosze - TAX_RATE * (exact \div 1000)
    IN  /\ 1000 * rest <= TAX_RATE * (exact % 1000) + 500
        /\ TAX_RATE * (exact % 1000) + 500 < 1000 * rest + 1000

\* C3, amended: with R the sum of amountInPLN over the year's taxable
\* disposals, C the sum of amountInPLN plus feeInPLN over its deductible-cost
\* transactions, P the carry-forward handed in and T = C + P, each returned
\* figure is the stated quantity rounded half up to 2 decimals: revenue of R,
\* currentYearCosts of C, previousYearsCosts of P, totalCosts of T, income of
\* max(R - T, 0), carryForwardCosts of max(T - R, 0), tax of 19% of
\* max(R - T, 0).
C3_RoundedFigures ==
    Returned =>
        \A k \in DOMAIN TaxYears :
            LET y == TaxYears[k]
                R == AmountSum(y.taxableTransactions)
                T == AmountSum(y.acquisitionTransactions)
                       + FeeSum(y.acquisitionTransactions) + CarryInto(k)
            IN  /\ IsRounded(y.revenue, R)
                /\ IsRounded(y.currentYearCosts, T - CarryInto(k))
                /\ IsRounded(y.previousYearsCosts, CarryInto(k))
                /\ IsRounded(y.totalCosts, T)
                /\ IsRounded(y.income, Max(R - T, 0))
                /\ IsRounded(y.carryForwardCosts, Max(T - R, 0))
                /\ IsRoundedTax(y.tax \div 10, Max(R - T, 0))

\* Revenue 1.004 and cost 0.996 both show as 1.00 while income shows 0.01;
\* and a purchase with its own fee counted.
C3_Witness ==
    /\ Returned
    /\ \E k \in DOMAIN TaxYears :
          /\ TaxYears[k].revenue = TaxYears[k].totalCosts
          /\ TaxYears[k].income = 10

\* The kinds that are neither a disposal nor a cost.
ExemptKinds ==
    {"crypto_swap", "staking_reward", "airdrop", "transfer_in", "transfer_out",
     "unknown"}

WithoutExempt(txs) ==
    LET Counts(tx) == tx.type \notin ExemptKinds
    IN  SelectSeq(txs, Counts)

\* C4: a transaction of kind crypto_swap, staking_reward, airdrop,
\* transfer_in, transfer_out or unknown is in no TaxYear's
\* taxableTransactions or acquisitionTransactions, and every TaxYear is the
\* one computed from its year's transactions with those left out.
C4_ExemptKindsCountNothing ==
    Returned =>
        \A k \in DOMAIN TaxYears :
            /\ \A tx \in Range(TaxYears[k].taxableTransactions)
                       \cup Range(TaxYears[k].acquisitionTransactions) :
                  tx.type \notin ExemptKinds
            /\ TaxYears[k] = calculateYearTax(TaxYears[k].year,
                                              WithoutExempt(GroupOf(TaxYears[k])),
                                              CarryInto(k))

\* An exempt transaction with a fiat amount in a year that has revenue.
C4_Witness ==
    /\ Returned
    /\ \E k \in DOMAIN TaxYears :
          /\ TaxYears[k].revenue > 0
          /\ \E tx \in Range(GroupOf(TaxYears[k])) :
                tx.type \in ExemptKinds /\ OrZero(tx.amountInPLN) > 0

\* C5: of a year's transactions, those listed as taxable disposals are
\* exactly the sell and payment ones, those listed as deductible costs are
\* exactly the buy ones and the fee ones whose note contains "sell", and none
\* is listed as both.
C5_Classifier ==
    Returned =>
        \A k \in DOMAIN TaxYears :
            \A tx \in Range(GroupOf(TaxYears[k])) :
                /\ tx \in Range(TaxYears[k].taxableTransactions)
                      <=> tx.type \in {"sell", "payment"}
                /\ tx \in Range(TaxYears[k].acquisitionTransactions)
                      <=> \/ tx.type = "buy"
                          \/ /\ tx.type = "fee"
                             /\ tx.notes # None
                             /\ Includes(Get(tx.notes), <<"s", "e", "l", "l">>)
                /\ ~ (/\ tx \in Range(TaxYears[k].taxableTransactions)
                      /\ tx \in Range(TaxYears[k].acquisitionTransactions))

\* One fee whose note contains "sell" is a cost, another fee is not.
C5_Witness ==
    /\ Returned
    /\ \E k \in DOMAIN TaxYears :
          /\ \E tx \in Range(TaxYears[k].acquisitionTransactions) : tx.type = "fee"
          /\ \E tx \in Range(GroupOf(TaxYears[k])) :
                /\ tx.type = "fee"
                /\ tx \notin Range(TaxYears[k].acquisitionTransactions)

FieldSum(taxYears, Field(_)) == SumSeq([k \in DOMAIN taxYears |-> Field(taxYears[k])])

RevenueOf(y) == y.revenue
CurrentYearCostsOf(y) == y.currentYearCosts
TotalCostsOf(y) == y.totalCosts
IncomeOf(y) == y.income
TaxOf(y) == y.tax

\* C6 as stated: every grand total is the sum of the TaxYear field of the
\* same name, totalCosts the sum of the years' totalCosts.
C6_TotalsOfSameField ==
    Returned =>
        /\ Get(calculation).totalRevenue = FieldSum(TaxYears, RevenueOf)
        /\ Get(calculation).totalCosts = FieldSum(TaxYears, TotalCostsOf)
        /\ Get(calculation).totalIncome = FieldSum(TaxYears, IncomeOf)
        /\ Get(calculation).totalTax = FieldSum(TaxYears, TaxOf)

\* C6, amended: totalRevenue, totalIncome and totalTax are the sums over the
\* TaxYears of revenue, income and tax; totalCosts is the sum of the years'
\* currentYearCosts (carried-forward cost is not counted again).
C6_Totals ==
    Returned =>
        /\ Get(calculation).totalRevenue = FieldSum(TaxYears, RevenueOf)
        /\ Get(calculation).totalCosts = FieldSum(TaxYears, CurrentYearCostsOf)
        /\ Get(calculation).totalIncome = FieldSum(TaxYears, IncomeOf)
        /\ Get(calculation).totalTax = FieldSum(TaxYears, TaxOf)

\* Two years, the first leaving cost to carry into the second.
C6_Witness ==
    /\ Returned
    /\ Len(TaxYears) = 2
    /\ TaxYears[1].carryForwardCosts > 0
    /\ TaxYears[2].totalCosts > TaxYears[2].currentYearCosts

\* C7: the TaxYear list holds one entry for each calendar year in which a
\* transaction is dated and no other, in strictly ascending year order.
\* Violated: years 999 and 1000 come out as 1000, 999.
C7_YearsAscending ==
    Returned =>
        /\ {TaxYears[k].year : k \in DOMAIN TaxYears}
              = {GetFullYear(tx.date) : tx \in Range(Concatenate(files))}
        /\ \A j, k \in DOMAIN TaxYears :
              j < k => TaxYears[j].year < TaxYears[k].year

---------------------------------------------------------------------------
(* Properties of repeated runs (SpecReplay)                               *)

\* The rates getNBPExchangeRate can have returned for a transaction when the
\* engine has returned: the cached one of its key, or the fallback.
ResolvedBy(tx, rate) ==
    IF ToUpperCase(tx.fiatCurrency) = PLN THEN rate = 1000
    ELSE \/ rate = getFallbackRate(tx.fiatCurrency)
         \/ /\ CacheKey(tx.fiatCurrency, getLastBusinessDay(tx.date)) \in DOMAIN rateCache
            /\ rate = rateCache[CacheKey(tx.fiatCurrency, getLastBusinessDay(tx.date))]

SameFigures(a, b) ==
    /\ a.years = b.years
    /\ a.totalRevenue = b.totalRevenue
    /\ a.totalCosts = b.totalCosts
    /\ a.totalIncome = b.totalIncome
    /\ a.totalTax = b.totalTax

\* C8 as stated: a run whose batches, incoming carry-forward and resolved
\* rates are those of the first run returns the very TaxCalculation of the
\* first run, and a transaction that comes with a resolved rate and PLN amount
\* keeps them, no rate being looked up for it.
C8_ReplayIdentical ==
    /\ (Returned /\ transactionsWithPLN = Get(firstResolved))
          => calculation = first
    /\ Returned =>
          \A i \in DOMAIN transactionsWithPLN :
              allTransactions[i].nbpExchangeRate # None =>
                  /\ transactionsWithPLN[i].nbpExchangeRate
                        = allTransactions[i].nbpExchangeRate
                  /\ transactionsWithPLN[i].amountInPLN
                        = allTransactions[i].amountInPLN
    /\ (pc = "resolving" /\ cursor.slot = "fiat")
          => allTransactions[cursor.i].nbpExchangeRate = None

\* C8, amended: a run whose batches, incoming carry-forward and resolved
\* rates are those of the first run returns the same TaxYear list and the
\* same grand totals (id, createdAt and updatedAt are made anew by every run);
\* and every transaction, one that comes with a resolved rate and PLN amount
\* included, is resolved again: a PLN amount is taken as it is with rate 1,
\* any other positive amount is multiplied by the rate getNBPExchangeRate
\* returns (cached or fallback), replacing what the transaction carried.
C8_ReplayFigures ==
    Returned =>
        /\ transactionsWithPLN = Get(firstResolved)
              => SameFigures(Get(calculation), Get(first))
        /\ \A i \in DOMAIN transactionsWithPLN :
              IF NeedsFiatConversion(allTransactions[i])
              THEN /\ ResolvedBy(allTransactions[i],
                                 Get(transactionsWithPLN[i].nbpExchangeRate))
                   /\ transactionsWithPLN[i].amountInPLN
                         = Some(ToPLN(allTransactions[i].fiatAmount,
                                      Get(transactionsWithPLN[i].nbpExchangeRate)))
              ELSE /\ transactionsWithPLN[i].nbpExchangeRate = Some(1000)
                   /\ transactionsWithPLN[i].amountInPLN
                         = Some(allTransactions[i].fiatAmount)

\* A later run (another id) that resolved the rates of the first run, over
\* a transaction that came with rate 3.5 and leaves with another one.
C8_Witness ==
    /\ Returned
    /\ Get(calculation).id # Get(first).id
    /\ transactionsWithPLN = Get(firstResolved)
    /\ previousCosts # 0
    /\ \E i \in DOMAIN transactionsWithPLN :
          /\ allTransactions[i].nbpExchangeRate = Some(3500)
          /\ transactionsWithPLN[i].nbpExchangeRate # Some(3500)

---------------------------------------------------------------------------
(* Properties of the rate resolver (SpecRates)                            *)

\* C9: a getNBPExchangeRate call for PLN, at any date and with any cache
\* content, has returned (never waits), returned exactly 1, issued no query
\* and written no cache entry.
C9_LocalCurrencyIsOne ==
    \A c \in Callers :
        (lk[c].stage # "idle" /\ ToUpperCase(lk[c].currencyCode) = PLN) =>
            /\ lk[c].stage = "done"
            /\ lk[c].rate = 1000
            /\ lk[c].fetches = 0
            /\ lk[c].wrote = FALSE
            /\ \A key \in DOMAIN rateCache : key[1] # PLN

\* PLN asked for while the cache holds a rate.
C9_Witness ==
    /\ lk["direct"].stage = "done"
    /\ lk["direct"].currencyCode = PLN
    /\ lk["direct"].rate = 1000
    /\ rateCache # <<>>

IsBusinessDay(day) == (day + 4) % 7 \in 1..5

\* `ref` is the most recent Monday-to-Friday day strictly before day `day`.
LastBusinessDayBefore(ref, day) ==
    /\ IsBusinessDay(ref)
    /\ ref < day
    /\ \A d \in (ref + 1)..(day - 1) : ~ IsBusinessDay(d)

\* C10 as stated: the date in the cache key and in the exact-date query is
\* the most recent Monday-to-Friday day strictly before the transaction's
\* calendar day (the day the transaction date falls on where the program
\* runs).  Violated: 2024-01-16 00:00 in Warsaw gives Sunday 2024-01-14.
C10_ReferenceDate ==
    \A c \in Callers :
        (lk[c].stage \notin {"idle", "rejected"}
           /\ ToUpperCase(lk[c].currencyCode) # PLN) =>
            /\ LastBusinessDayBefore(DaysFromCivil(lk[c].cacheKey[2]),
                                     LocalDay(lk[c].transactionDate))
            /\ lk[c].stage = "exact" => lk[c].query[1] = lk[c].cacheKey[2]

\* The direct caller's lookup returns in this step, after at least one query.
Completes == lk["direct"].stage \in {"exact", "nearest"} /\ lk'["direct"].stage = "done"

\* The same lookup made again right after this step.
Repeated ==
    BeginLookup(lk'["direct"].currencyCode, lk'["direct"].transactionDate, rateCache')

RepeatedIsHit ==
    /\ lk'["direct"].cacheKey \in DOMAIN rateCache'
    /\ rateCache'[lk'["direct"].cacheKey] = lk'["direct"].rate
    /\ Repeated.stage = "done"
    /\ Repeated.fetches = 0
    /\ Repeated.rate = lk'["direct"].rate

\* C11 as stated: when a lookup for a currency other than PLN returns,
\* whether the exact-date query, the 7-day query or the fallback table
\* supplied the rate, the cache holds that rate under (currency, reference
\* date) and the same lookup made again is a cache hit with the same rate.
C11_CachedWhateverSupplied == [][Completes => RepeatedIsHit]_vars

\* C11, amended: when the exact-date query or the 7-day query supplied the
\* rate, the cache holds it under (currency, reference date) and the same
\* lookup made again is a cache hit with the same rate; when the fallback
\* table supplied it, the cache is left as it was and the same lookup made
\* again queries the source again.
C11_CachedWhenPublished ==
    [][Completes =>
         IF lk'["direct"].exactRates # <<>> \/ lk'["direct"].nearestRates # <<>>
         THEN RepeatedIsHit
         ELSE /\ lk'["direct"].rate = getFallbackRate(lk'["direct"].currencyCode)
              /\ rateCache' = rateCache
              /\ lk'["direct"].cacheKey \notin DOMAIN rateCache'
              /\ Repeated.stage = "exact"]_vars

\* A rate found by the 7-day query is in the cache under the reference date.
C11_Witness ==
    /\ lk["direct"].stage = "done"
    /\ lk["direct"].fetches = 2
    /\ lk["direct"].nearestRates # <<>>
    /\ lk["direct"].cacheKey \in DOMAIN rateCache
    /\ rateCache[lk["direct"].cacheKey] = lk["direct"].rate

\* A returned lookup for a currency other than PLN whose key has been cached
\* at some time.
ReturnedForKnownKey(c) ==
    /\ lk[c].stage = "done"
    /\ ToUpperCase(lk[c].currencyCode) # PLN
    /\ lk[c].cacheKey \in DOMAIN everCached

\* C12 as stated: clearRateCache calls change no returned rate.  Without
\* them a key once cached is served at that rate ever after, so with them
\* every returned rate is still the one first cached under its key.
C12_ClearChangesNoRate ==
    \A c \in Callers :
        ReturnedForKnownKey(c) => lk[c].rate = everCached[lk[c].cacheKey].rate

\* C12, amended: of lookups made one after another, one returns a rate other
\* than the one first cached under its key only if the cache was cleared in
\* between; after a clear a lookup queries again and its key is served with
\* what the source answers then (or the fallback value), whatever was
\* returned before.
C12_RateChangesOnlyAfterClear ==
    \A c \in Callers :
        ReturnedForKnownKey(c) =>
            \/ lk[c].rate = everCached[lk[c].cacheKey].rate
            \/ everCached[lk[c].cacheKey].cleared

\* After a clear the source is unreachable and the key that had a published
\* rate gets the fallback value.
C12_Witness ==
    /\ ReturnedForKnownKey("direct")
    /\ everCached[lk["direct"].cacheKey].cleared
    /\ lk["direct"].fetches = 2
    /\ lk["direct"].rate = getFallbackRate(lk["direct"].currencyCode)
    /\ lk["direct"].rate # everCached[lk["direct"].cacheKey].rate

\* C13: no getNBPExchangeRate call rejects, and a call that has returned has
\* returned a positive number, for every currency code, every date a parser
\* can hand over and every answer of the source.  Violated: a date that is
\* an Invalid Date, with a currency other than PLN.
C13_NeverRaises ==
    \A c \in Callers :
        /\ lk[c].stage # "rejected"
        /\ lk[c].stage = "done" => lk[c].rate > 0

\* C14: a lookup that missed the cache first asks for the reference date
\* alone; only if that published no rate it asks for the range that ends at
\* the reference date and starts 7 days before it, and takes the last (most
\* recent) rate of the answer; it returns the fallback value only if neither
\* query published a rate, and the published rate otherwise.
C14_SourceOrder ==
    \A c \in Callers :
        /\ lk[c].stage = "exact" =>
              /\ lk[c].fetches = 1
              /\ lk[c].query = <<lk[c].cacheKey[2], lk[c].cacheKey[2]>>
        /\ lk[c].stage = "nearest" =>
              /\ lk[c].fetches = 2
              /\ lk[c].exactRates = <<>>
              /\ lk[c].query[2] = lk[c].cacheKey[2]
              /\ DaysFromCivil(lk[c].query[2]) - DaysFromCivil(lk[c].query[1]) = 7
        /\ (lk[c].stage = "done" /\ lk[c].fetches > 0) =>
              IF lk[c].exactRates # <<>>
              THEN lk[c].fetches = 1 /\ lk[c].rate = lk[c].exactRates[1]
              ELSE /\ lk[c].fetches = 2
                   /\ IF lk[c].nearestRates # <<>>
                      THEN lk[c].rate = lk[c].nearestRates[Len(lk[c].nearestRates)]
                      ELSE lk[c].rate = getFallbackRate(lk[c].currencyCode)

\* The exact date had no rate and the 7-day window had two: the later one
\* is returned, not the fallback value.
C14_Witness ==
    /\ lk["direct"].stage = "done"
    /\ lk["direct"].exactRates = <<>>
    /\ Len(lk["direct"].nearestRates) = 2
    /\ lk["direct"].rate = 4100
    /\ lk["direct"].rate # getFallbackRate(lk["direct"].currencyCode)

---------------------------------------------------------------------------
(* Ingestion properties                                                     *)

\* The header list the reader handed to detectExchangeFormat.
DetectedHeaders ==
    IF PickedType = "xlsx" THEN XlsxHeaders(Picked.content)
    ELSE Picked.content.headers

LowerNames(headers) == {ToLowerCase(h) : h \in Range(headers)}

\* The signatures in priority order.
Signatures ==
    << [parser |-> "parseBinanceRow", columns |-> { <<"o", "p", "e", "r", "a", "t", "i", "o", "n">>, <<"c", "o", "i", "n">> }],
       [parser |-> "parseKrakenRow", columns |-> { <<"t", "x", "i", "d">>, <<"p", "a", "i", "r">> }],
       [parser |-> "parseCoinbaseRow",
        columns |-> { <<"t", "r", "a", "n", "s", "a", "c", "t", "i", "o", "n", " ", "t", "y", "p", "e">>, <<"a", "s", "s", "e", "t">> }],
       [parser |-> "parseBitBayRow", columns |-> { <<"t", "y", "p">>, <<"w", "a", "l", "u", "t", "a">> }] >>

SignatureMatches(i, names) == Signatures[i].columns \subseteq names

\* C15: for every header list, detection answers with the parser of the
\* first signature, in the order Binance, Kraken, Coinbase, BitBay/Zonda,
\* whose two column names both occur in the list when letter case is
\* ignored, also when later signatures match as well, and with the generic
\* parser when no signature matches, the empty header list included.
C15_FirstSignatureWins ==
    adding.parser # None =>
        \/ \E i \in DOMAIN Signatures :
              /\ SignatureMatches(i, LowerNames(DetectedHeaders))
              /\ \A j \in 1..(i - 1) :
                    ~SignatureMatches(j, LowerNames(DetectedHeaders))
              /\ Get(adding.parser) = Signatures[i].parser
        \/ /\ \A i \in DOMAIN Signatures :
                 ~SignatureMatches(i, LowerNames(DetectedHeaders))
           /\ Get(adding.parser) = "parseGenericRow"

\* A header list in mixed letter case that matches the Binance and the
\* Kraken signature has been given the Binance parser.
C15_Witness ==
    /\ adding.parser = Some("parseBinanceRow")
    /\ SignatureMatches(2, LowerNames(DetectedHeaders))
    /\ \E h \in Range(DetectedHeaders) : h # ToLowerCase(h)

\* The transactions and the warnings of the file just parsed from rows.
ParsedFromRows == adding.parsed # None /\ adding.parser # None
ParsedTransactions == Range(Get(adding.parsed).transactions)

\* C16: every transaction a row parser produced has cryptoAmount >= 0,
\* fiatAmount >= 0 and, when it has a fee, fee >= 0, whatever the signs of
\* the row's numeric cells.
C16_AmountsNonNegative ==
    ParsedFromRows =>
        \A tx \in ParsedTransactions :
            /\ tx.cryptoAmount >= 0
            /\ tx.fiatAmount >= 0
            /\ tx.fee # None => Get(tx.fee) >= 0

\* C17: a row whose date text is missing or is no date yields no
\* transaction, so every transaction a parser emitted has a valid date.
C17_EmittedDatesValid ==
    ParsedFromRows =>
        \A tx \in ParsedTransactions : ~IsInvalidDate(tx.date)

\* C18: every data row of a CSV or XLSX file ends as exactly one
\* transaction or exactly one warning line: the transactions and the
\* warnings of a parsed file together number its data rows.
C18_OneOutcomePerRow ==
    ParsedFromRows =>
        Len(Get(adding.parsed).transactions) + Len(Get(adding.parsed).parseErrors)
            = Len(Picked.content.lines)

\* parseFile has the size of a file larger than 50 MB in hand.
Oversized ==
    adding.stage = "stat" /\ Picked.size > 50 * 1024 * 1024

\* C19: parseFile of a file larger than 50 MB fails with the size error
\* before any content is read or any row parsed and yields no ParsedFile,
\* and the files loaded before, with their transactions, stay as they were.
C19_OversizedFailsAlone ==
    [][Oversized =>
          /\ adding'.stage = "alert"
          /\ adding'.error = Some(SizeError)
          /\ ~adding'.contentRead
          /\ adding'.parser = None
          /\ adding'.parsed = None
          /\ files' = files]_vars

\* The size error was shown while the batch held a file with a
\* transaction, and nothing was read.
C19_Witness ==
    /\ adding.stage = "alert"
    /\ adding.error = Some(SizeError)
    /\ ~adding.contentRead
    /\ Len(files) = 1 /\ Len(files[1]) = 1

---------------------------------------------------------------------------
(* Termination of calculateTax.  Every fetch settles, with an answer or    *)
(* with an error: the platform's network stack times a request out.        *)

\* A purchase with its fee in USD and a disposal in EUR: every lookup a
\* calculation can wait for, the first of a key and the repeated one.
LiveTxs ==
    {Tx("buy", DMonLate, 10000, USD, Some(1000), Some(USD), None),
     Tx("sell", DMonNoon, 10010, EUR, None, None, None)}

InitLive ==
    /\ tz \in TimeZones
    /\ files \in WorkloadsOver(LiveTxs)
    /\ previousCosts = 0
    /\ InitCommon

SpecLive ==
    /\ InitLive
    /\ [][Next]_vars
    /\ WF_vars(\E resp \in Responses : FetchExactResponds("calc", resp))
    /\ WF_vars(\E resp \in Responses : FetchNearestResponds("calc", resp))

---------------------------------------------------------------------------
(* Rounding and accumulation                                               *)

ExactRevenue(y) == AmountSum(y.taxableTransactions)
ExactCosts(y) == AmountSum(y.acquisitionTransactions) + FeeSum(y.acquisitionTransactions)

\* max(totalCosts - revenue, 0) of the k-th year computed, no figure rounded
\* on the way; the incoming carry-forward for k = 0.
RECURSIVE UnroundedCarry(_)
UnroundedCarry(k) ==
    IF k = 0 THEN previousCosts
    ELSE Max(ExactCosts(TaxYears[k]) + UnroundedCarry(k - 1)
               - ExactRevenue(TaxYears[k]), 0)

UnroundedIncome(k) ==
    Max(ExactRevenue(TaxYears[k]) - ExactCosts(TaxYears[k]) - UnroundedCarry(k - 1), 0)

\* C21: figures are rounded to 2 decimals only where the TaxYear and the
\* grand totals are produced: the carry-forward a year receives is the
\* unrounded max(totalCosts - revenue, 0) of the year before, and the grand
\* totals are the roundings of the sums of the unrounded yearly values.
\* Violated: 20.005 carried in, 0.996 bought in 2023 and 1.004 in 2024 give
\* totalCosts(2024) = 22.00, not 22.01.
C21_RoundedOnlyAtTheEnd ==
    Returned =>
        /\ \A k \in DOMAIN TaxYears :
              /\ IsRounded(TaxYears[k].previousYearsCosts, UnroundedCarry(k - 1))
              /\ IsRounded(TaxYears[k].totalCosts,
                           ExactCosts(TaxYears[k]) + UnroundedCarry(k - 1))
              /\ IsRounded(TaxYears[k].income, UnroundedIncome(k))
              /\ IsRounded(TaxYears[k].carryForwardCosts, UnroundedCarry(k))
        /\ IsRounded(Get(calculation).totalRevenue, FieldSum(TaxYears, ExactRevenue))
        /\ IsRounded(Get(calculation).totalCosts, FieldSum(TaxYears, ExactCosts))
        /\ IsRounded(Get(calculation).totalIncome,
                     SumSeq([k \in DOMAIN TaxYears |-> UnroundedIncome(k)]))

---------------------------------------------------------------------------
(* Order of the transactions                                               *)

\* Row a comes before row b in the concatenation of the batches.
IdBefore(a, b) == a[1] < b[1] \/ (a[1] = b[1] /\ a[2] < b[2])

\* Dates never decrease along the list, and equal dates keep source order.
StablyOrdered(list) ==
    \A i, j \in DOMAIN list :
        i < j => /\ list[i].date <= list[j].date
                 /\ list[i].date = list[j].date => IdBefore(list[i].id, list[j].id)

---------------------------------------------------------------------------
(* The rate cache shared by lookups in flight together                     *)

\* A disposal and a purchase with a fee, all in USD.
SharedTxs ==
    {Tx("sell", DMonLate, 20000, USD, None, None, None),
     Tx("buy", DMonNoon, 10000, USD, Some(1000), Some(USD), None)}

SharedCurrencies == {USD, usd}
SharedDates == {DMonNoon, DMonLate}

\* One file holding one of them.
SharedWorkloads == {AttachIds(<< <<tx>> >>) : tx \in SharedTxs}

InitShared ==
    /\ tz \in TimeZones
    /\ files \in SharedWorkloads
    /\ previousCosts = 0
    /\ InitCommon

\* calculateTax resolving its amounts while another caller of nbpService
\* looks rates up: each activation moves at its own awaits.
NextShared ==
    \/ CalculateTax
    \/ \E currencyCode \in SharedCurrencies, transactionDate \in SharedDates :
          GetNBPExchangeRate(currencyCode, transactionDate)
    \/ \E c \in Callers, resp \in Responses : FetchExactResponds(c, resp)
    \/ \E c \in Callers, resp \in Responses : FetchNearestResponds(c, resp)
    \/ ClearRateCache

SpecShared == InitShared /\ [][NextShared]_vars

\* Every key of the cache is still there with the rate it had.
EntriesKept ==
    \A key \in DOMAIN rateCache :
        key \in DOMAIN rateCache' /\ rateCache'[key] = rateCache[key]

\* C23: the rate cache is append-only between clears: a step of a lookup,
\* lookups of one key that interleave at their awaits included, neither
\* removes a key nor replaces the rate under it; only clearRateCache removes
\* entries.  Violated: two lookups of USD for one reference date both miss;
\* the first to answer caches the rate of the exact-date query, the other
\* then overwrites it with the last rate of its 7-day query.
C23_AppendOnly == [][EntriesKept \/ ClearRateCache]_vars

---------------------------------------------------------------------------
(* What calculateTax leaves alone                                          *)

\* C24: calculateTax does not mutate its inputs: in every step of a run,
\* and of a run made again, every transaction of the input batches keeps its
\* field values (no amountInPLN, nbpExchangeRate or feeInPLN written) and
\* every batch keeps its order; and the running carry-forward is a local
\* seeded from the argument, so the first year computed of every run
\* receives previousCarryForwardCosts.
C24_InputsUntouched ==
    /\ [][files' = files]_vars
    /\ [](Returned /\ TaxYears # <<>> =>
            IsRounded(TaxYears[1].previousYearsCosts, previousCosts))

\* A second run has returned; the batches hold a foreign-currency row that
\* came with a rate and a PLN amount attached, which the result replaced in
\* its own copy.
C24_Witness ==
    /\ Returned
    /\ first # None
    /\ Get(first).id # Get(calculation).id
    /\ \E f \in DOMAIN files : \E row \in DOMAIN files[f] :
          /\ files[f][row].amountInPLN # None
          /\ \E i \in DOMAIN transactionsWithPLN :
                /\ transactionsWithPLN[i].id = <<f, row>>
                /\ transactionsWithPLN[i].amountInPLN # files[f][row].amountInPLN

---------------------------------------------------------------------------
(* Income against carry-forward                                            *)

\* C25: in every TaxYear at most one of income and carryForwardCosts is
\* non-zero, and they are the two sides of revenue - totalCosts taken before
\* rounding: with R the year's revenue and T its total costs, R >= T gives
\* income round2(R - T) and nothing carried, R < T gives income 0 and
\* round2(T - R) carried; a year never both owes tax and carries cost forward.
C25_IncomeOrCarry ==
    Returned =>
        \A k \in DOMAIN TaxYears :
            /\ TaxYears[k].income = 0 \/ TaxYears[k].carryForwardCosts = 0
            /\ ~ (TaxYears[k].tax > 0 /\ TaxYears[k].carryForwardCosts > 0)
            /\ IF ExactRevenue(TaxYears[k]) >= ExactCosts(TaxYears[k]) + CarryInto(k)
               THEN /\ TaxYears[k].income =
                         Round2(ExactRevenue(TaxYears[k]) - ExactCosts(TaxYears[k])
                                  - CarryInto(k))
                    /\ TaxYears[k].carryForwardCosts = 0
               ELSE /\ TaxYears[k].income = 0
                    /\ TaxYears[k].carryForwardCosts =
                         Round2(ExactCosts(TaxYears[k]) + CarryInto(k)
                                  - ExactRevenue(TaxYears[k]))

\* A year that has revenue, costs above it, no income and no tax, and
\* carries the rest of the costs on.
C25_Witness ==
    /\ Returned
    /\ \E k \in DOMAIN TaxYears :
          /\ TaxYears[k].revenue > 0
          /\ TaxYears[k].totalCosts > TaxYears[k].revenue
          /\ TaxYears[k].carryForwardCosts > 0
          /\ TaxYears[k].income = 0
          /\ TaxYears[k].tax = 0

---------------------------------------------------------------------------
(* Detection against the columns the parsers read                          *)

\* The rows the reader handed to the parser, and the index of the first.
PickedRows ==
    IF PickedType = "xlsx" THEN XlsxRows(Picked.content) ELSE CsvRows(Picked.content)
RowBase == IF PickedType = "xlsx" THEN 1 ELSE 0

\* Per exchange parser, the lower-case names of the columns it takes the
\* date and the symbol from.
ReadColumns ==
    [parseBinanceRow |-> [date |-> { <<"u", "t", "c", "_", "t", "i", "m", "e">>, <<"d", "a", "t", "e">> }, symbol |-> { <<"c", "o", "i", "n">> }],
     parseKrakenRow |-> [date |-> { <<"t", "i", "m", "e">> }, symbol |-> { <<"p", "a", "i", "r">> }],
     parseCoinbaseRow |-> [date |-> { <<"t", "i", "m", "e", "s", "t", "a", "m", "p">> }, symbol |-> { <<"a", "s", "s", "e", "t">> }],
     parseBitBayRow |-> [date |-> { <<"d", "a", "t", "a">>, <<"d", "a", "t", "e">> }, symbol |-> { <<"w", "a", "l", "u", "t", "a">>, <<"c", "u", "r", "r", "e", "n", "c", "y">> }]]

\* The row has text under a column of one of these names, in any letter case.
FilledUnder(row, names) ==
    \E key \in DOMAIN row : ToLowerCase(key) \in names /\ row[key] # <<>>

\* C26: when detectExchangeFormat chose an exchange parser for a header
\* list, in whatever letter case the headers matched the signature, every
\* row with text in its date column and in its symbol column has become a
\* transaction.  Violated: under the header line operation,COIN,Date the
\* Binance parser is chosen and reads row['Coin'], which the row lacks.
C26_MatchedColumnsAreRead ==
    (ParsedFromRows /\ Get(adding.parser) \in DOMAIN ReadColumns) =>
        \A i \in DOMAIN PickedRows :
            (/\ FilledUnder(PickedRows[i], ReadColumns[Get(adding.parser)].date)
             /\ FilledUnder(PickedRows[i], ReadColumns[Get(adding.parser)].symbol))
            => \E tx \in ParsedTransactions : tx.id[2] = RowBase + i - 1

---------------------------------------------------------------------------
(* From parsed files to the calculation: ImportScreen handleCalculate      *)

\* The export files of at most MaxLines data lines, parsed.
ParsedExports == {parseCSV(content).transactions : content \in ExportContents}

OneLine(headers, lines) == {parseCSV(Content(headers, <<line>>)).transactions : line \in lines}

\* The batches handed to calculateTax: one parsed export, or a Binance
\* export together with a BitBay/Zonda one.  A transaction is named by its
\* file and row.
IngestWorkloads ==
    {AttachIds(<<transactions>>) : transactions \in ParsedExports}
    \cup {AttachIds(<<a, b>>) : a \in OneLine(BinanceHeaders, BinanceLines),
                                b \in OneLine(BitBayHeaders, BitBayLines)}

\* A row whose date text is no date arrives with an Invalid Date;
\* groupByYear files such transactions under one key of their own (NaN),
\* which is here the year of InvalidTime.
InitIngest ==
    /\ tz = 0
    /\ files \in IngestWorkloads
    /\ previousCosts \in CarryIns
    /\ InitCommon

SpecIngest == InitIngest /\ [][Next]_vars

ValueFree == {"Binance", "BitBay/Zonda"}

\* Every transaction of the batches comes from a Binance or BitBay/Zonda file.
OnlyValueFree ==
    /\ Concatenate(files) # <<>>
    /\ \A tx \in Range(Concatenate(files)) : tx.exchangeName \in ValueFree

NoRateQuery == rateCache = <<>> /\ lk["calc"].fetches = 0

\* C27 as stated: a transaction parsed from a Binance or BitBay/Zonda file
\* has fiatAmount 0 and no fee, and a calculation over such files alone has
\* in every TaxYear revenue 0, currentYearCosts 0, income 0 and tax 0 and a
\* carry-forward equal to the one the year received, without any rate query.
\* Violated: an incoming carry-forward of -5.00 gives income 5.00.
C27_NothingCounted ==
    OnlyValueFree =>
        /\ \A tx \in Range(Concatenate(files)) : tx.fiatAmount = 0 /\ tx.fee = None
        /\ pc # "idle" => pc = "done" /\ NoRateQuery
        /\ Returned =>
              \A k \in DOMAIN TaxYears :
                  /\ TaxYears[k].revenue = 0
                  /\ TaxYears[k].currentYearCosts = 0
                  /\ TaxYears[k].income = 0
                  /\ TaxYears[k].tax = 0
                  /\ TaxYears[k].carryForwardCosts = TaxYears[k].previousYearsCosts

\* C27, amended: as stated when the incoming carry-forward is not negative
\* (the carry-forward being the incoming one rounded to 2 decimals); a
\* negative incoming carry-forward c makes the first year computed return
\* income -c and tax 19% of it, and carry 0 to the years after it.
C27_NothingCountedButTheCarry ==
    OnlyValueFree =>
        /\ \A tx \in Range(Concatenate(files)) : tx.fiatAmount = 0 /\ tx.fee = None
        /\ pc # "idle" => pc = "done" /\ NoRateQuery
        /\ Returned =>
              \A k \in DOMAIN TaxYears :
                  /\ TaxYears[k].revenue = 0
                  /\ TaxYears[k].currentYearCosts = 0
                  /\ IF CarryInto(k) >= 0
                     THEN /\ TaxYears[k].income = 0
                          /\ TaxYears[k].tax = 0
                          /\ TaxYears[k].carryForwardCosts = Round2(CarryInto(k))
                          /\ TaxYears[k].carryForwardCosts = TaxYears[k].previousYearsCosts
                     ELSE /\ k = 1
                          /\ TaxYears[k].income = Round2(0 - CarryInto(k))
                          /\ TaxYears[k].tax = RoundedTax(0 - CarryInto(k))
                          /\ TaxYears[k].carryForwardCosts = 0

\* A Binance file with a purchase and a disposal, computed with 20.005
\* carried in: nothing counted, 20.01 carried on.
C27_Witness ==
    /\ OnlyValueFree
    /\ Returned
    /\ previousCosts > 0
    /\ \E k \in DOMAIN TaxYears :
          /\ TaxYears[k].carryForwardCosts > 0
          /\ \E a, b \in Range(GroupOf(TaxYears[k])) :
                a.type = "buy" /\ b.type = "sell" /\ a.exchangeName = "Binance"

---------------------------------------------------------------------------
(* storageService over AsyncStorage, and ResultsScreen handleSave          *)

\* getCalculations: the parsed list, [] when the key is not set.
getCalculations == IF asyncStorage.calculations = None THEN <<>>
                   ELSE Get(asyncStorage.calculations)

\* getCalculationById: the record under `${CALCULATIONS}_${id}`, or null.
getCalculationById(id) ==
    IF id \in DOMAIN asyncStorage.records THEN Some(asyncStorage.records[id]) ELSE None

\* getCarryForwardCosts: the parsed object, {} when the key is not set.
getCarryForwardCosts == IF asyncStorage.carryForwardCosts = None THEN <<>>
                        ELSE Get(asyncStorage.carryForwardCosts)

\* costs[forYear - 1] || 0
getLatestCarryForwardCost(forYear) ==
    IF (forYear - 1) \in DOMAIN getCarryForwardCosts
    THEN getCarryForwardCosts[forYear - 1] ELSE 0

\* The SavedCalculation made of a TaxCalculation.
Summary(c) ==
    [id |-> c.id, createdAt |-> c.createdAt,
     summary |-> [k \in DOMAIN c.years |->
                    [year |-> c.years[k].year, revenue |-> c.years[k].revenue,
                     income |-> c.years[k].income, tax |-> c.years[k].tax]]]

\* existing.findIndex(c => c.id === id), 0 standing for -1.
FindIndex(existing, id) ==
    IF \E i \in DOMAIN existing : existing[i].id = id
    THEN CHOOSE i \in DOMAIN existing :
            /\ existing[i].id = id
            /\ \A j \in 1..(i - 1) : existing[j].id # id
    ELSE 0

\* existing[existingIndex] = summary, or existing.push(summary)
Upsert(existing, summary) ==
    IF FindIndex(existing, summary.id) > 0
    THEN [existing EXCEPT ![FindIndex(existing, summary.id)] = summary]
    ELSE Append(existing, summary)

\* existing.filter(c => c.id !== id)
Without(existing, id) ==
    LET Other(c) == c.id # id IN SelectSeq(existing, Other)

\* existing[year] = amount
WithYear(existing, year, amount) ==
    [y \in DOMAIN existing \cup {year} |-> IF y = year THEN amount ELSE existing[y]]

\* The next turn of handleSave's loop over calculation.years from the k-th
\* year on: the first year with carryForwardCosts > 0, 0 when none is left.
RECURSIVE NextCarried(_, _)
NextCarried(years, k) ==
    IF k > Len(years) THEN 0
    ELSE IF years[k].carryForwardCosts > 0 THEN k
    ELSE NextCarried(years, k + 1)

EngineIdle ==
    UNCHANGED <<tz, files, previousCosts, pc, allTransactions,
                transactionsWithPLN, cursor, carryForward, calculation,
                first, firstResolved, rateCache, everCached, lk, adding>>

CallOver == call.stage \in {"idle", "done", "failed"}

\* handleSave, up to the first setItem of saveCalculation: the list is read
\* and the summary put in place.
HandleSave(c) ==
    /\ CallOver
    /\ call' = [fn |-> "handleSave", stage |-> "list", calculation |-> Some(c),
                id |-> c.id, list |-> Upsert(getCalculations, Summary(c)),
                year |-> 0]
    /\ UNCHANGED asyncStorage
    /\ EngineIdle

\* deleteCalculation(id), up to its setItem.
DeleteCalculation(id) ==
    /\ CallOver
    /\ call' = [fn |-> "deleteCalculation", stage |-> "list", calculation |-> None,
                id |-> id, list |-> Without(getCalculations, id), year |-> 0]
    /\ UNCHANGED asyncStorage
    /\ EngineIdle

\* A rejected write: the function's catch throws, and handleSave's catch
\* shows the alert.
Thrown == [call EXCEPT !.stage = "failed"]

\* handleSave after saveCalculation or a saveCarryForwardCosts returned:
\* on to the year at k or a later one, or done.
Onward(k) ==
    IF NextCarried(Get(call.calculation).years, k) = 0
    THEN [call EXCEPT !.stage = "done", !.year = 0]
    ELSE [call EXCEPT !.stage = "carry",
                      !.year = NextCarried(Get(call.calculation).years, k)]

\* AsyncStorage.setItem(STORAGE_KEYS.CALCULATIONS, ...) settles.
SetListSettles(ok) ==
    /\ call.stage = "list"
    /\ IF ok
       THEN /\ asyncStorage' = [asyncStorage EXCEPT !.calculations = Some(call.list)]
            /\ call' = [call EXCEPT !.stage = IF call.fn = "deleteCalculation"
                                               THEN "remove" ELSE "record"]
       ELSE call' = Thrown /\ UNCHANGED asyncStorage
    /\ EngineIdle

\* AsyncStorage.setItem(`${CALCULATIONS}_${id}`, ...) settles.
SetRecordSettles(ok) ==
    /\ call.stage = "record"
    /\ IF ok
       THEN /\ asyncStorage' =
                  [asyncStorage EXCEPT !.records =
                      [id \in DOMAIN asyncStorage.records \cup {call.id} |->
                          IF id = call.id THEN Get(call.calculation)
                          ELSE asyncStorage.records[id]]]
            /\ call' = Onward(1)
       ELSE call' = Thrown /\ UNCHANGED asyncStorage
    /\ EngineIdle

\* AsyncStorage.removeItem(`${CALCULATIONS}_${id}`) settles.
RemoveSettles(ok) ==
    /\ call.stage = "remove"
    /\ IF ok
       THEN /\ asyncStorage' =
                  [asyncStorage EXCEPT !.records =
                      [id \in DOMAIN asyncStorage.records \ {call.id} |->
                          asyncStorage.records[id]]]
            /\ call' = [call EXCEPT !.stage = "done"]
       ELSE call' = Thrown /\ UNCHANGED asyncStorage
    /\ EngineIdle

\* saveCarryForwardCosts(year.year, year.carryForwardCosts): its setItem
\* settles.
SetCarrySettles(ok) ==
    /\ call.stage = "carry"
    /\ IF ok
       THEN /\ asyncStorage' =
                  [asyncStorage EXCEPT !.carryForwardCosts =
                      Some(WithYear(getCarryForwardCosts,
                                    Get(call.calculation).years[call.year].year,
                                    Get(call.calculation).years[call.year].carryForwardCosts))]
            /\ call' = Onward(call.year + 1)
       ELSE call' = Thrown /\ UNCHANGED asyncStorage
    /\ EngineIdle

\* The calculations the results screen is opened with: calculateTax over
\* transactions in PLN, which resolve without a rate query.
Computed(txs, now) ==
    FinishCalculation(Resume(SortByDate(txs), <<>>, 1, "fiat", None, <<>>).result,
                      0, now).calculation

\* 100,000.00 bought in 2023; 150,000.00 sold in 2023; 100,000.00 bought in
\* 2023 and 80,000.00 sold in 2024.
StoreTxs ==
    { <<Plain("buy", D2023, 100000000)>>,
      <<Plain("sell", D2023, 150000000)>>,
      <<Plain("buy", D2023, 100000000), Plain("sell", DMid, 80000000)>> }

SaveInputs == {Computed(txs, now) : txs \in StoreTxs, now \in Clock}

InitStore ==
    /\ tz = 0
    /\ files = <<>>
    /\ previousCosts = 0
    /\ InitCommon

NextStore ==
    \/ \E c \in SaveInputs : HandleSave(c)
    \/ \E id \in Clock : DeleteCalculation(id)
    \/ \E ok \in BOOLEAN : SetListSettles(ok)
    \/ \E ok \in BOOLEAN : SetRecordSettles(ok)
    \/ \E ok \in BOOLEAN : RemoveSettles(ok)
    \/ \E ok \in BOOLEAN : SetCarrySettles(ok)

SpecStore == InitStore /\ [][NextStore]_vars

ListedIds == {getCalculations[i].id : i \in DOMAIN getCalculations}

\* C29: after any sequence of saveCalculation and deleteCalculation calls,
\* each completed or failed part-way at a write, an id is in the list of
\* getCalculations exactly when getCalculationById returns a record for it,
\* and the list holds at most one summary per id.  Violated: the list is
\* written, then the write of the record fails.
C29_ListAndRecordsInStep ==
    CallOver =>
        /\ \A id \in Clock : id \in ListedIds <=> getCalculationById(id) # None
        /\ \A i, j \in DOMAIN getCalculations :
              getCalculations[i].id = getCalculations[j].id => i = j

\* handleSave has completed without an error.
Saved == call.fn = "handleSave" /\ call.stage = "done"

\* C30: once handleSave has saved a calculation, for every year Y of it a
\* later getLatestCarryForwardCost(Y + 1) returns that year's
\* carryForwardCosts, 0 when the calculation left nothing to carry, whatever
\* was saved before.  Violated: 100,000.00 stored for 2023 by an earlier
\* save stays when a calculation with nothing to carry from 2023 is saved.
C30_LatestCarryIsStored ==
    Saved =>
        \A k \in DOMAIN Get(call.calculation).years :
            getLatestCarryForwardCost(Get(call.calculation).years[k].year + 1)
                = Get(call.calculation).years[k].carryForwardCosts

=============================================================================
